---------------------------- MODULE Spec2Model ----------------------------
(***************************************************************************)
(* A model of the crawler: the exclusion-pattern matcher (patterns.go),   *)
(* the tree walker (crawler.go, processDirectory) and the records it      *)
(* keeps (file_info.go).                                                  *)
(*                                                                         *)
(* Strings are sequences of one-character strings, so that splitting,     *)
(* taking a base name and glob matching are computed character by         *)
(* character, as the code computes them.                                  *)
(***************************************************************************)
EXTENDS Integers, Sequences, FiniteSets, TLC

VARIABLES
    call,       \* the matcher call under study: its function, inputs, result
    fs,         \* the filesystem: path -> attributes of the entry
    cfg,        \* the process flags: exclusion patterns, retryErrors
    files,      \* the files table: path -> row, or NoRow
    folders,    \* the folders table: a sequence of rows, the id is the index
    stats,      \* ProcessStats: files processed, bytes processed, last path
    phase,      \* "idle" between walks, "walking" inside filepath.WalkDir
    todo,       \* the pending callback invocations of WalkDir, in order
    walkNo,     \* the number of walks started
    obs,        \* what the walks did, for the properties (history)
    visitedSymlinks  \* the link targets followed so far (the -follow variant)

vars == <<call, fs, cfg, files, folders, stats, phase, todo, walkNo, obs, visitedSymlinks>>

-----------------------------------------------------------------------------
(* Bounds *)

\* longest pattern drawn for a matcher call
MaxPatLen == 4
\* longest path drawn for a matcher call
MaxPathLen == 5
\* longest pattern list drawn for an isExcluded call
MaxPatterns == 3
\* walks of the tree in one behaviour
MaxWalks == 2
\* the latest modification time (in ticks) a file can get
MaxTick == 2

-----------------------------------------------------------------------------
(* Strings *)

Slash == "/"

\* the empty string
Empty == <<>>

\* the strings over alphabet of length at most n
StringsUpTo(alphabet, n) == UNION {[1..k -> alphabet] : k \in 0..n}

Min(S) == CHOOSE x \in S : \A y \in S : x <= y

Max(S) == CHOOSE x \in S : \A y \in S : x >= y

\* strings.Contains(s, c) for a one-character c
Contains(s, c) == \E i \in 1..Len(s) : s[i] = c

\* strings.HasSuffix(s, c) for a one-character c
HasSuffix(s, c) == Len(s) > 0 /\ s[Len(s)] = c

\* s[:len(s)-1]
DropLast(s) == SubSeq(s, 1, Len(s) - 1)

\* strings.LastIndex(s, c), 1-based, 0 when c does not occur
LastIndex(s, c) ==
    LET at == {i \in 1..Len(s) : s[i] = c} IN IF at = {} THEN 0 ELSE Max(at)

\* strings.Index(s, c), 1-based, 0 when c does not occur
Index(s, c) ==
    LET at == {i \in 1..Len(s) : s[i] = c} IN IF at = {} THEN 0 ELSE Min(at)

\* strings.Split(s, "/"): the pieces between the separators, empty ones kept
RECURSIVE Split(_)
Split(s) ==
    LET i == Index(s, Slash) IN
    IF i = 0 THEN <<s>>
    ELSE <<SubSeq(s, 1, i - 1)>> \o Split(SubSeq(s, i + 1, Len(s)))

\* s without its trailing separators
RECURSIVE TrimSlashes(_)
TrimSlashes(s) == IF HasSuffix(s, Slash) THEN TrimSlashes(DropLast(s)) ELSE s

\* filepath.Base: the last element of the path, trailing separators removed;
\* "." for the empty path and "/" for a path of separators only
Base(p) ==
    IF p = Empty THEN <<".">>
    ELSE LET t == TrimSlashes(p)
             b == SubSeq(t, LastIndex(t, Slash) + 1, Len(t)) IN
         IF b = Empty THEN <<Slash>> ELSE b

\* path.Match(pattern, name), its error dropped (a malformed pattern matches
\* nothing): '*' matches any run of non-separator characters, '?' one
\* non-separator character, '\' escapes the next character, any other
\* character matches itself. Character classes are outside the alphabets
\* the model draws from.
RECURSIVE Match(_, _)
Match(pattern, name) ==
    IF pattern = Empty THEN name = Empty
    ELSE IF pattern[1] = "*" THEN
        \/ Match(Tail(pattern), name)
        \/ name # Empty /\ name[1] # Slash /\ Match(pattern, Tail(name))
    ELSE IF pattern[1] = "?" THEN
        name # Empty /\ name[1] # Slash /\ Match(Tail(pattern), Tail(name))
    ELSE IF pattern[1] = "\\" THEN
        /\ Len(pattern) >= 2
        /\ name # Empty
        /\ name[1] = pattern[2]
        /\ Match(SubSeq(pattern, 3, Len(pattern)), Tail(name))
    ELSE name # Empty /\ name[1] = pattern[1] /\ Match(Tail(pattern), Tail(name))

-----------------------------------------------------------------------------
(* patterns.go: the matcher *)

fileComponentsMatch(patternComponents, filePathComponents) ==
    /\ Len(filePathComponents) >= Len(patternComponents)
    /\ \A i \in 1..Len(patternComponents) :
           Match(patternComponents[i], filePathComponents[i])

\* a buggy case 1: the pattern is matched against the whole path
basenameMatchWholePath(pattern, filePath) == Match(pattern, filePath)

\* Case 1: a pattern without a separator is matched against the base name
basenameMatch(pattern, filePath) == Match(pattern, Base(filePath))

\* the components of the path, the empty one before a leading separator dropped
pathComponents(filePath) ==
    LET c == Split(filePath) IN IF c[1] = Empty THEN Tail(c) ELSE c

\* a buggy case 3: only the window at offset 0 is tried
slidingMatchFirstWindow(patternComponents, filePathComponents) ==
    fileComponentsMatch(patternComponents, filePathComponents)

\* Case 3: the pattern's components are tried at every offset of the path's
slidingMatch(patternComponents, filePathComponents) ==
    \E i \in 0..(Len(filePathComponents) - Len(patternComponents)) :
        fileComponentsMatch(patternComponents,
                            SubSeq(filePathComponents, i + 1, Len(filePathComponents)))

\* a buggy case 2: the anchored pattern falls through to case 3
anchoredMatchSliding(patternComponents, filePathComponents) ==
    slidingMatch(Tail(patternComponents), filePathComponents)

\* Case 2: a pattern with a leading separator is matched from the path's root
anchoredMatch(patternComponents, filePathComponents) ==
    fileComponentsMatch(Tail(patternComponents), filePathComponents)

\* filepathMatch for a pattern that does not end in a separator
plainMatch(pattern, filePath) ==
    IF ~Contains(pattern, Slash) THEN basenameMatch(pattern, filePath)
    ELSE LET filePathComponents == pathComponents(filePath)
             patternComponents == Split(pattern) IN
         IF patternComponents[1] = Empty
         THEN anchoredMatch(patternComponents, filePathComponents)
         ELSE slidingMatch(patternComponents, filePathComponents)

\* a buggy directory pattern: only the bare pattern is tried
dirPatternMatchBareOnly(bare, wild) == bare

\* a pattern ending in a separator: the bare pattern or the pattern plus '*'
dirPatternMatch(bare, wild) == bare \/ wild

RECURSIVE filepathMatch(_, _)
filepathMatch(pattern, filePath) ==
    IF HasSuffix(pattern, Slash)
    THEN dirPatternMatch(filepathMatch(DropLast(pattern), filePath),
                         filepathMatch(pattern \o <<"*">>, filePath))
    ELSE plainMatch(pattern, filePath)

\* the result of isExcluded: (matched, pattern)
Excluded(pattern) == [match |-> TRUE, pattern |-> pattern]
NotExcluded == [match |-> FALSE, pattern |-> Empty]

\* a buggy isExcluded: the loop does not stop at the first match
RECURSIVE isExcludedLast(_, _)
isExcludedLast(path, excludePatterns) ==
    IF excludePatterns = <<>> THEN NotExcluded
    ELSE LET rest == isExcludedLast(path, Tail(excludePatterns)) IN
         IF rest.match THEN rest
         ELSE IF filepathMatch(Head(excludePatterns), path)
              THEN Excluded(Head(excludePatterns))
              ELSE NotExcluded

RECURSIVE isExcluded(_, _)
isExcluded(path, excludePatterns) ==
    IF excludePatterns = <<>> THEN NotExcluded
    ELSE IF filepathMatch(Head(excludePatterns), path)
         THEN Excluded(Head(excludePatterns))
         ELSE isExcluded(path, Tail(excludePatterns))

-----------------------------------------------------------------------------
(* The inputs of the matcher calls: every short string over a small        *)
(* alphabet, and the patterns and paths of crawler_test.go.                *)

PatternAlphabet == {"a", "*", "?", Slash}
PathAlphabet == {"a", "b", Slash}

\* "*.txt"
P_txt == <<"*", ".", "t", "x", "t">>
\* "logs/*.txt"
P_logs == <<"l", "o", "g", "s", "/", "*", ".", "t", "x", "t">>
\* "/a/*/b/*"
P_axb == <<"/", "a", "/", "*", "/", "b", "/", "*">>
\* "/logs/*.txt"
P_rootlogs == <<"/", "l", "o", "g", "s", "/", "*", ".", "t", "x", "t">>
\* "/tmp/*"
P_tmp == <<"/", "t", "m", "p", "/", "*">>
\* ".git/"
P_git == <<".", "g", "i", "t", "/">>

\* "file.txt"
F_file_txt == <<"f", "i", "l", "e", ".", "t", "x", "t">>
\* "file.jpg"
F_file_jpg == <<"f", "i", "l", "e", ".", "j", "p", "g">>
\* "/tmp/file.txt"
F_tmp_file == <<"/", "t", "m", "p", "/", "f", "i", "l", "e", ".", "t", "x", "t">>
\* "/usr/tmp/file.txt"
F_usr_tmp_file == <<"/", "u", "s", "r", "/", "t", "m", "p", "/", "f", "i", "l", "e", ".", "t", "x", "t">>
\* "logs/file.txt"
F_logs_file == <<"l", "o", "g", "s", "/", "f", "i", "l", "e", ".", "t", "x", "t">>
\* "logs/file.jpg"
F_logs_jpg == <<"l", "o", "g", "s", "/", "f", "i", "l", "e", ".", "j", "p", "g">>
\* "logs/a/b/cde"
F_logs_abcde == <<"l", "o", "g", "s", "/", "a", "/", "b", "/", "c", "d", "e">>
\* "/tmp/logs/file.txt"
F_tmp_logs_file == <<"/", "t", "m", "p", "/", "l", "o", "g", "s", "/", "f", "i", "l", "e", ".", "t", "x", "t">>
\* "/a/b/c/d"
F_abcd == <<"/", "a", "/", "b", "/", "c", "/", "d">>
\* "/root/logs/a/b"
F_root_logs_ab == <<"/", "r", "o", "o", "t", "/", "l", "o", "g", "s", "/", "a", "/", "b">>
\* "/a/x/b/d"
F_axbd == <<"/", "a", "/", "x", "/", "b", "/", "d">>
\* "/a/logs/file.txt"
F_a_logs_file == <<"/", "a", "/", "l", "o", "g", "s", "/", "f", "i", "l", "e", ".", "t", "x", "t">>
\* "/a/.git"
F_git == <<"/", "a", "/", ".", "g", "i", "t">>
\* "/a/.git/config"
F_git_config == <<"/", "a", "/", ".", "g", "i", "t", "/", "c", "o", "n", "f", "i", "g">>
\* "/a/.git/objects/ab/cd"
F_git_deep == <<"/", "a", "/", ".", "g", "i", "t", "/", "o", "b", "j", "e", "c", "t", "s", "/", "a", "b", "/", "c", "d">>

\* the patterns of TestFilepathMatch, and the directory pattern ".git/"
TestPatterns == {P_txt, P_logs, P_axb, P_rootlogs, P_tmp, P_git}

\* the paths of TestFilepathMatch and TestIsExcluded, and paths under .git
TestPaths ==
    {F_file_txt, F_file_jpg, F_tmp_file, F_usr_tmp_file, F_logs_file, F_logs_jpg,
     F_logs_abcde, F_tmp_logs_file, F_abcd, F_root_logs_ab, F_axbd, F_a_logs_file,
     F_git, F_git_config, F_git_deep}

\* excludePatterns of TestIsExcluded
TestExcludePatterns == <<P_axb, P_txt, P_tmp, P_logs>>

MatchPatterns == StringsUpTo(PatternAlphabet, MaxPatLen) \cup TestPatterns

MatchPaths == (StringsUpTo(PathAlphabet, MaxPathLen) \ {Empty}) \cup TestPaths

\* the patterns the lists of an isExcluded call are made of
ListPatterns == {P_axb, P_txt, P_tmp, P_logs, <<"a">>, <<"*">>}

PatternLists ==
    UNION {[1..k -> ListPatterns] : k \in 0..MaxPatterns} \cup {TestExcludePatterns}

ExcludedPaths == TestPaths \cup (StringsUpTo(PathAlphabet, 2) \ {Empty})

NoCall == [fn |-> "none", patterns |-> <<>>, path |-> Empty, result |-> NotExcluded]

\* one call filepathMatch(pattern, filePath)
CallFilepathMatch ==
    /\ call.fn = "none"
    /\ \E pattern \in MatchPatterns, filePath \in MatchPaths :
           call' = [fn |-> "filepathMatch", patterns |-> <<pattern>>, path |-> filePath,
                    result |-> [match |-> filepathMatch(pattern, filePath),
                                pattern |-> Empty]]
    /\ UNCHANGED <<fs, cfg, files, folders, stats, phase, todo, walkNo, obs, visitedSymlinks>>

\* one call isExcluded(path, excludePatterns)
CallIsExcluded ==
    /\ call.fn = "none"
    /\ \E excludePatterns \in PatternLists, path \in ExcludedPaths :
           call' = [fn |-> "isExcluded", patterns |-> excludePatterns, path |-> path,
                    result |-> isExcluded(path, excludePatterns)]
    /\ UNCHANGED <<fs, cfg, files, folders, stats, phase, todo, walkNo, obs, visitedSymlinks>>

-----------------------------------------------------------------------------
(* The filesystem the walks see *)

\* a NULL column, and a column holding v
Null == <<>>
Valid(v) == <<v>>

\* "/r", the root argument, and the entries under it
Root == <<"/", "r">>
FileA == <<"/", "r", "/", "a">>
DirD == <<"/", "r", "/", "d">>
FileF == <<"/", "r", "/", "d", "/", "f">>
GoneG == <<"/", "r", "/", "g">>
FifoP == <<"/", "r", "/", "p">>
LinkS == <<"/", "r", "/", "s">>

\* a second tree: /e with the regular files a.txt and b.log and the named pipe p
TreeE == <<"/", "e">>
FileATxt == <<"/", "e", "/", "a", ".", "t", "x", "t">>
FileBLog == <<"/", "e", "/", "b", ".", "l", "o", "g">>
FifoEP == <<"/", "e", "/", "p">>

TreeEPaths == {TreeE, FileATxt, FileBLog, FifoEP}

\* a tree that holds the crawler's own files: /w with the regular files \i,
\* i and l, in the order of a listing
TreeW == <<"/", "w">>
FileWBackslashI == <<"/", "w", "/", "\\", "i">>
FileWI == <<"/", "w", "/", "i">>
FileWL == <<"/", "w", "/", "l">>

TreeWPaths == {TreeW, FileWBackslashI, FileWI, FileWL}

Paths == {Root, FileA, DirD, FileF, GoneG, FifoP, LinkS}

\* what each entry is. "gone" is an entry that its directory listed and that
\* lstat no longer finds: d.Info() fails for it.
KindOf(path) ==
    CASE path \in {Root, DirD, TreeE, TreeW} -> "dir"
      [] path \in {FileA, FileF, FileATxt, FileBLog, FileWBackslashI, FileWI, FileWL} -> "file"
      [] path = GoneG -> "gone"
      [] path \in {FifoP, FifoEP} -> "fifo"
      [] path = LinkS -> "symlink"

\* os.ReadDir: the names in a directory, sorted
ReadDir(path) ==
    CASE path = Root -> << <<"a">>, <<"d">>, <<"g">>, <<"p">>, <<"s">> >>
      [] path = DirD -> << <<"f">> >>
      [] path = TreeE -> << <<"a", ".", "t", "x", "t">>, <<"b", ".", "l", "o", "g">>, <<"p">> >>
      [] path = TreeW -> << <<"\\", "i">>, <<"i">>, <<"l">> >>
      [] OTHER -> <<>>

\* filepath.Join(path, name) of a clean path and a name
Join(path, name) == path \o <<Slash>> \o name

\* the regular files, whose time, content and permissions change between walks
RegularFiles == {p \in Paths : KindOf(p) = "file"}

\* the contents a file can have; content c is c bytes long
Contents == {1, 2}

\* "ok"; "noopen": os.Open fails; "readerr": reading fails; "nolist" and
\* "nolistio": ReadDir fails, with one error or with another
ModesOf(path) ==
    CASE path = FileA -> {"ok", "noopen", "readerr"}
      [] path = DirD -> {"ok", "nolist", "nolistio"}
      [] OTHER -> {"ok"}

\* ticks of the file clock in one second
TicksPerSecond == 2

\* info.ModTime().Format(time.RFC3339): the time to the second, fractions dropped
FormatRFC3339(t) == t \div TicksPerSecond

\* a buggy digest: every content has the same digest
Sha256Constant(content) == <<"sha256", 0>>

\* fmt.Sprintf("%x", sha256(content))
Sha256(content) == <<"sha256", content>>

\* info.Size()
SizeOf(path) ==
    CASE KindOf(path) = "file" -> fs[path].content
      [] KindOf(path) = "symlink" -> 1
      [] OTHER -> 0

\* the target of the symbolic link, as os.Readlink returns it
LinkTarget == <<"a">>

\* filepath.Dir of a clean path
Dir(path) ==
    LET i == LastIndex(path, Slash)
        d == TrimSlashes(SubSeq(path, 1, i)) IN
    IF i = 0 THEN <<".">> ELSE IF d = Empty THEN <<Slash>> ELSE d

\* filepath.Ext: the suffix of the last element from its last dot on
Ext(path) ==
    LET b == SubSeq(path, LastIndex(path, Slash) + 1, Len(path))
        i == LastIndex(b, ".") IN
    IF i = 0 THEN Empty ELSE SubSeq(b, i, Len(b))

-----------------------------------------------------------------------------
(* file_info.go: the records *)

\* NewFileInfo(path, d)
NewFileInfo(path) ==
    [path |-> Valid(path), name |-> Valid(Base(path)), type |-> Valid(Ext(path)),
     ctime |-> Null, mtime |-> Null, hash |-> Null, size |-> 0,
     dir |-> KindOf(path) = "dir", symlink |-> Null, pattern |-> Null,
     error |-> Null, folder |-> 0, isFifo |-> FALSE]

\* the row WriteToDatabase binds
RowOf(f) ==
    [name |-> f.name, type |-> f.type, ctime |-> f.ctime, mtime |-> f.mtime,
     hash |-> f.hash, size |-> f.size, dir |-> f.dir, symlink |-> f.symlink,
     pattern |-> f.pattern, error |-> f.error, folder |-> f.folder]

\* a buggy write: INSERT OR IGNORE, an existing row is kept
WriteToDatabaseIgnore(table, f) ==
    LET path == f.path[1] IN
    IF path \in DOMAIN table THEN table
    ELSE [q \in DOMAIN table \cup {path} |-> IF q = path THEN RowOf(f) ELSE table[q]]

\* FileInfo.WriteToDatabase: INSERT OR REPLACE INTO files
WriteToDatabase(table, f) ==
    LET path == f.path[1] IN
    [q \in DOMAIN table \cup {path} |-> IF q = path THEN RowOf(f) ELSE table[q]]

\* fmt.Sprintf("%s: %s", msg, err) of WriteError; a nil error under the verb
\* %s is printed as %!s(<nil>)
Sprintf(msg, err) == msg \o ": " \o (IF err = "nil" THEN "%!s(<nil>)" ELSE err)

\* FileInfo.WriteError(msg, err, db), msg being the formatted text
WriteError(table, f, msg) == WriteToDatabase(table, [f EXCEPT !.error = Valid(msg)])

\* SELECT id FROM folders WHERE path=?
FolderIdOf(table, path) ==
    LET at == {i \in 1..Len(table) : table[i].path = path} IN
    IF at = {} THEN 0 ELSE Min(at)

\* getFolderID(db, path): the id, and the folders table after the inserts
RECURSIVE getFolderID(_, _)
getFolderID(table, path) ==
    LET id == FolderIdOf(table, path) IN
    IF id # 0 THEN [id |-> id, folders |-> table]
    ELSE IF path = <<Slash>>
    THEN [id |-> Len(table) + 1,
          folders |-> Append(table, [path |-> path, parent |-> Null])]
    ELSE LET up == getFolderID(table, Dir(path)) IN
         [id |-> Len(up.folders) + 1,
          folders |-> Append(up.folders, [path |-> path, parent |-> Valid(up.id)])]

\* ProcessStats.Update(path, fileSize)
Update(st, path, fileSize) ==
    [files |-> st.files + 1, bytes |-> st.bytes + fileSize, last |-> path]

\* a buggy UpdateInfo: the modification time is left unset
UpdateInfoNoModTime(f, path) ==
    [f EXCEPT !.ctime = Valid(0),
              !.size = SizeOf(path),
              !.isFifo = (KindOf(path) = "fifo"),
              !.symlink = IF KindOf(path) = "symlink" THEN Valid(LinkTarget) ELSE Null]

\* FileInfo.UpdateInfo after d.Info() succeeded
UpdateInfo(f, path) ==
    [f EXCEPT !.ctime = Valid(0),
              !.mtime = Valid(FormatRFC3339(fs[path].mtime)),
              !.size = SizeOf(path),
              !.isFifo = (KindOf(path) = "fifo"),
              !.symlink = IF KindOf(path) = "symlink" THEN Valid(LinkTarget) ELSE Null]

-----------------------------------------------------------------------------
(* crawler.go: the callback processDirectory hands to filepath.WalkDir *)

\* what one invocation of the callback leaves: the tables, the counters, the
\* value it returns to WalkDir, the branch it ended in and whether the file's
\* bytes were streamed through the digest
Return(table, folderTable, st, outcome, hashed) ==
    [files |-> table, folders |-> folderTable, stats |-> st, ret |-> "nil",
     outcome |-> outcome, hashed |-> hashed]

\* a buggy memo: no stored error is ever found
storedErrorNever(path) == FALSE

\* SELECT error FROM files WHERE path=? AND error IS NOT NULL finds a row
storedError(path) == path \in DOMAIN files /\ files[path].error # Null

\* a buggy shortcut: any stored row stops the visit, whatever its time
unchangedModTimeAnyRow(path, f) == path \in DOMAIN files

\* a buggy shortcut: the stored time is never taken as equal
unchangedModTimeNever(path, f) == FALSE

\* SELECT modification_time FROM files WHERE path=? scans a string (a NULL
\* column does not scan) equal to the time just read
unchangedModTime(path, f) ==
    /\ path \in DOMAIN files
    /\ files[path].mtime # Null
    /\ files[path].mtime[1] = f.mtime[1]

\* the result of UpdateHash: the error text WriteError has stored ("nil" for
\* none), the digest, and whether the hashing pass has started
HashResult(err, hash, started) == [err |-> err, hash |-> hash, started |-> started]

\* FileInfo.UpdateHash(db, extraLogging): os.Open, with extra logging a full
\* read pass and a seek back to the start, then the hashing pass
UpdateHash(path, extraLogging) ==
    CASE fs[path].mode = "noopen" ->
           HashResult(Sprintf("opening file", "permission denied"), Null, FALSE)
      [] extraLogging /\ fs[path].mode = "readerr" ->
           HashResult(Sprintf("reading file", "input/output error"), Null, FALSE)
      [] extraLogging /\ fs[path].mode = "seekerr" ->
           HashResult(Sprintf("seeking file", "illegal seek"), Null, FALSE)
      [] fs[path].mode = "readerr" ->
           HashResult(Sprintf("hashing file", "input/output error"), Null, TRUE)
      [] OTHER ->
           HashResult("nil", Valid(Sha256(fs[path].content)), TRUE)

\* a buggy hashing step: the failure is written nowhere
hashAndWriteUnrecorded(path, f, folderTable, st) ==
    LET u == UpdateHash(path, cfg.extraLogging) IN
    IF u.err # "nil"
    THEN Return(files, folderTable, st,
                IF fs[path].mode = "noopen" THEN "openError" ELSE "hashError", u.started)
    ELSE Return(WriteToDatabase(files, [f EXCEPT !.hash = u.hash]),
                folderTable, st, "hashed", u.started)

\* a buggy hashing step: the error record of a failed read carries a digest
hashAndWriteKeepsDigest(path, f, folderTable, st) ==
    LET u == UpdateHash(path, cfg.extraLogging) IN
    IF u.err # "nil"
    THEN Return(WriteError(files, [f EXCEPT !.hash = Valid(Sha256(0))], u.err),
                folderTable, st,
                IF fs[path].mode = "noopen" THEN "openError" ELSE "hashError", u.started)
    ELSE Return(WriteToDatabase(files, [f EXCEPT !.hash = u.hash]),
                folderTable, st, "hashed", u.started)

\* f.UpdateHash(db, extraLogging), which writes the error record itself when
\* it fails, then the write of the full record
hashAndWrite(path, f, folderTable, st) ==
    LET u == UpdateHash(path, cfg.extraLogging) IN
    IF u.err # "nil"
    THEN Return(WriteError(files, f, u.err), folderTable, st,
                IF fs[path].mode = "noopen" THEN "openError" ELSE "hashError", u.started)
    ELSE Return(WriteToDatabase(files, [f EXCEPT !.hash = u.hash]),
                folderTable, st, "hashed", u.started)

\* a buggy exclusion branch: the excluded entry is hashed like any other
excludedEntryHashed(path, f, pattern, folderTable) ==
    LET g == [f EXCEPT !.pattern = Valid(pattern)] IN
    IF KindOf(path) = "file"
    THEN hashAndWrite(path, g, folderTable, Update(stats, path, f.size))
    ELSE Return(WriteToDatabase(files, g), folderTable, Update(stats, path, f.size),
                "excluded", FALSE)

\* the exclusion branch: the record carries the pattern, the counters move
excludedEntry(path, f, pattern, folderTable) ==
    Return(WriteToDatabase(files, [f EXCEPT !.pattern = Valid(pattern)]),
           folderTable, Update(stats, path, f.size), "excluded", FALSE)

\* a callback that looks at the exclusion list before the FIFO check
classifyExclusionFirst(path, f, folderTable) ==
    LET excluded == isExcluded(path, cfg.patterns) IN
    IF excluded.match
    THEN excludedEntry(path, f, excluded.pattern, folderTable)
    ELSE IF f.isFifo
    THEN Return(WriteError(files, f, Sprintf("FIFO", "nil")), folderTable, stats, "fifo", FALSE)
    ELSE IF f.dir \/ (f.symlink # Null /\ f.symlink[1] # Empty)
    THEN Return(WriteToDatabase(files, f), folderTable, stats, "dirOrSymlink", FALSE)
    ELSE IF unchangedModTime(path, f)
    THEN Return(files, folderTable, Update(stats, path, f.size), "unchanged", FALSE)
    ELSE hashAndWrite(path, f, folderTable, Update(stats, path, f.size))

\* the callback from the FIFO check on: f holds the folder id and the metadata
classify(path, f, folderTable) ==
    LET excluded == isExcluded(path, cfg.patterns) IN
    IF f.isFifo
    THEN Return(WriteError(files, f, Sprintf("FIFO", "nil")), folderTable, stats, "fifo", FALSE)
    ELSE IF excluded.match
    THEN excludedEntry(path, f, excluded.pattern, folderTable)
    ELSE IF f.dir \/ (f.symlink # Null /\ f.symlink[1] # Empty)
    THEN Return(WriteToDatabase(files, f), folderTable, stats, "dirOrSymlink", FALSE)
    ELSE IF unchangedModTime(path, f)
    THEN Return(files, folderTable, Update(stats, path, f.size), "unchanged", FALSE)
    ELSE hashAndWrite(path, f, folderTable, Update(stats, path, f.size))

\* the callback: path, and the error WalkDir reports for it ("nil" for none)
walkFn(path, err) ==
    LET f == NewFileInfo(path)
        got == getFolderID(folders, Dir(path))
        withFolder == [f EXCEPT !.folder = got.id] IN
    IF err # "nil"
    THEN Return(WriteError(files, f, Sprintf("walking file:", err)), folders, stats,
                "walkError", FALSE)
    ELSE IF ~cfg.retryErrors /\ storedError(path)
    THEN Return(files, folders, stats, "remembered", FALSE)
    ELSE IF KindOf(path) = "gone"
    THEN Return(WriteError(files, withFolder, "getting file info: no such file or directory"),
                got.folders, stats, "infoError", FALSE)
    ELSE classify(path, UpdateInfo(withFolder, path), got.folders)

-----------------------------------------------------------------------------
(* filepath.WalkDir *)

Item(path, err) == [path |-> path, err |-> err]

\* the entries of a directory, as the loop of walkDir visits them
Children(path) ==
    LET names == ReadDir(path) IN
    [i \in 1..Len(names) |-> Item(Join(path, names[i]), "nil")]

\* the directories whose loops have ended return to their callers
RECURSIVE Unwind(_)
Unwind(stack) ==
    IF stack # <<>> /\ Head(stack) = <<>> THEN Unwind(Tail(stack)) ELSE stack

\* a buggy walk: the entries of a directory are never read
AfterCallbackNoDescent(stack, ret) ==
    IF ret = "SkipDir" /\ KindOf(Head(Head(stack)).path) # "dir"
    THEN Tail(stack)
    ELSE <<Tail(Head(stack))>> \o Tail(stack)

\* walkDir after the callback returned ret for the first item of the top loop
AfterCallback(stack, ret) ==
    LET item == Head(Head(stack))
        isDir == KindOf(item.path) = "dir"
        rest == <<Tail(Head(stack))>> \o Tail(stack) IN
    IF ret = "SkipDir"
    THEN IF isDir THEN rest ELSE Tail(stack)
    ELSE IF item.err # "nil" \/ ~isDir THEN rest
    ELSE IF fs[item.path].mode = "nolist"
    THEN << <<Item(item.path, "permission denied")>> >> \o rest
    ELSE IF fs[item.path].mode = "nolistio"
    THEN << <<Item(item.path, "input/output error")>> >> \o rest
    ELSE <<Children(item.path)>> \o rest

\* nothing seen yet in this walk
NoVisit == [path |-> Empty, err |-> "nil", before |-> Null, foldersBefore |-> <<>>,
            outcome |-> "none", hashed |-> FALSE]

NewObs(fsPrev, fsStart, dbStart) ==
    [visited |-> {}, hashed |-> {}, outcome |-> [q \in {} |-> "none"], last |-> NoVisit,
     fsPrev |-> fsPrev, fsStart |-> fsStart, dbStart |-> dbStart]

\* WalkDir's os.Lstat(root); "nostat" is a root that lstat does not find
RootItem ==
    Item(cfg.root, IF fs[cfg.root].mode = "nostat"
               THEN "lstat: no such file or directory" ELSE "nil")

\* WalkDir calls fn(root, nil, err) when the lstat of the root failed: the
\* callback gets no DirEntry
NilEntry(item) ==
    item.path = cfg.root /\ item.err # "nil" /\ fs[cfg.root].mode = "nostat"

\* main calls processDirectory(root, ...): WalkDir stats the root
StartWalk ==
    /\ phase = "idle"
    /\ walkNo < MaxWalks
    /\ phase' = "walking"
    /\ walkNo' = walkNo + 1
    /\ todo' = << <<RootItem>> >>
    /\ obs' = NewObs(obs.fsStart, Valid(fs), files)
    /\ UNCHANGED <<call, fs, cfg, files, folders, stats, visitedSymlinks>>

\* WalkDir calls the callback for the next entry
Visit ==
    /\ phase = "walking"
    /\ todo # <<>>
    /\ ~NilEntry(Head(Head(todo)))
    /\ LET item == Head(Head(todo))
           r == walkFn(item.path, item.err) IN
       /\ files' = r.files
       /\ folders' = r.folders
       /\ stats' = r.stats
       /\ todo' = Unwind(AfterCallback(todo, r.ret))
       /\ obs' = [obs EXCEPT
                    !.visited = @ \cup {item.path},
                    !.hashed = IF r.hashed THEN @ \cup {item.path} ELSE @,
                    !.outcome = [q \in DOMAIN @ \cup {item.path} |->
                                    IF q = item.path THEN r.outcome ELSE @[q]],
                    !.last = [path |-> item.path, err |-> item.err,
                              before |-> IF item.path \in DOMAIN files
                                         THEN Valid(files[item.path]) ELSE Null,
                              foldersBefore |-> folders,
                              outcome |-> r.outcome, hashed |-> r.hashed]]
    /\ UNCHANGED <<call, fs, cfg, phase, walkNo, visitedSymlinks>>

\* WalkDir returns, and processDirectory with it
FinishWalk ==
    /\ phase = "walking"
    /\ todo = <<>>
    /\ phase' = "idle"
    /\ UNCHANGED <<call, fs, cfg, files, folders, stats, todo, walkNo, obs, visitedSymlinks>>

-----------------------------------------------------------------------------
(* The world between two runs of the crawler *)

BetweenWalks == phase = "idle" /\ walkNo >= 1 /\ walkNo < MaxWalks

\* a file gets a later modification time
Touch ==
    /\ BetweenWalks
    /\ \E path \in RegularFiles, t \in 0..MaxTick :
          /\ t > fs[path].mtime
          /\ fs' = [fs EXCEPT ![path].mtime = t]
    /\ UNCHANGED <<call, cfg, files, folders, stats, phase, todo, walkNo, obs, visitedSymlinks>>

\* a file gets another content and keeps its modification time
Rewrite ==
    /\ BetweenWalks
    /\ \E path \in RegularFiles, c \in Contents :
          /\ c # fs[path].content
          /\ fs' = [fs EXCEPT ![path].content = c]
    /\ UNCHANGED <<call, cfg, files, folders, stats, phase, todo, walkNo, obs, visitedSymlinks>>

\* the permissions of an entry change
Chmod ==
    /\ BetweenWalks
    /\ \E path \in Paths : \E m \in ModesOf(path) :
          /\ m # fs[path].mode
          /\ fs' = [fs EXCEPT ![path].mode = m]
    /\ UNCHANGED <<call, cfg, files, folders, stats, phase, todo, walkNo, obs, visitedSymlinks>>

-----------------------------------------------------------------------------
(* The specifications *)

\* the exclusion lists of the runs: "d", "d/", "a" and "?" among them
WalkPatternLists ==
    {<<>>, << <<"d">> >>, << <<"d", Slash>> >>, << <<"a">> >>, << <<"?">> >>,
     << <<Slash, "r", Slash, "d", Slash, "*">>, <<"f">> >>}

\* main appends the names of the database and of the log file to the list;
\* they match no entry of this tree and are left out of the lists above
Configs ==
    [patterns : WalkPatternLists, retryErrors : BOOLEAN, root : {Root},
     extraLogging : {FALSE}]

\* the filesystems a first run can find
InitialFs ==
    {f \in [Paths -> [mtime : {0}, content : {1}, mode : {"ok", "noopen", "readerr", "nolist", "nolistio"}]] :
        \A p \in Paths : f[p].mode \in ModesOf(p)}

NoRows == [q \in {} |-> Null]

NewProcessStats == [files |-> 0, bytes |-> 0, last |-> Empty]

\* the state after main's set-up: an empty database, fresh counters
Init ==
    /\ call = NoCall
    /\ fs \in InitialFs
    /\ cfg \in Configs
    /\ files = NoRows
    /\ folders = <<>>
    /\ stats = NewProcessStats
    /\ phase = "idle"
    /\ todo = <<>>
    /\ walkNo = 0
    /\ obs = NewObs(Null, Null, NoRows)
    /\ visitedSymlinks = {}

Next ==
    \/ StartWalk
    \/ Visit
    \/ FinishWalk
    \/ Touch
    \/ Rewrite
    \/ Chmod

Spec == Init /\ [][Next]_vars

\* the matcher alone: one call on drawn inputs
InitMatch ==
    /\ call = NoCall
    /\ fs = [p \in Paths |-> [mtime |-> 0, content |-> 1, mode |-> "ok"]]
    /\ cfg = [patterns |-> <<>>, retryErrors |-> FALSE]
    /\ files = NoRows
    /\ folders = <<>>
    /\ stats = NewProcessStats
    /\ phase = "idle"
    /\ todo = <<>>
    /\ walkNo = 0
    /\ obs = NewObs(Null, Null, NoRows)
    /\ visitedSymlinks = {}

NextMatch ==
    \/ CallFilepathMatch
    \/ CallIsExcluded

SpecMatch == InitMatch /\ [][NextMatch]_vars

-----------------------------------------------------------------------------
(* The matcher: isExcluded and the matching modes of filepathMatch *)

IsExcludedCall == call.fn = "isExcluded"

FilepathMatchCall == call.fn = "filepathMatch"

\* the pattern of the filepathMatch call
CallPattern == call.patterns[1]

\* the positions of the patterns of the call that match its path
Hits == {i \in 1..Len(call.patterns) : filepathMatch(call.patterns[i], call.path)}

\* C1: isExcluded reports the first pattern of the list that matches the path,
\* and (false, "") when none does; for the list of TestIsExcluded it reports
\* "/a/*/b/*" for /a/x/b/d and "*.txt" for /tmp/logs/file.txt.
C1_FirstMatchingPattern ==
    IsExcludedCall =>
        /\ Hits = {} => call.result = [match |-> FALSE, pattern |-> Empty]
        /\ Hits # {} => call.result = [match |-> TRUE, pattern |-> call.patterns[Min(Hits)]]
        /\ call.patterns = TestExcludePatterns /\ call.path = F_axbd
              => call.result = [match |-> TRUE, pattern |-> P_axb]
        /\ call.patterns = TestExcludePatterns /\ call.path = F_tmp_logs_file
              => call.result = [match |-> TRUE, pattern |-> P_txt]

\* /tmp/logs/file.txt is matched by three patterns of the list, the second first
C1_Witness ==
    /\ IsExcludedCall
    /\ call.patterns = TestExcludePatterns
    /\ call.path = F_tmp_logs_file
    /\ Hits = {2, 3, 4}
    /\ call.result.pattern = P_txt

\* C2: a pattern without a separator matches a path exactly when it matches
\* the path's base name, at any depth, absolute or relative.
C2_BasenameOnly ==
    FilepathMatchCall /\ ~Contains(CallPattern, Slash) =>
        /\ call.result.match = filepathMatch(CallPattern, Base(call.path))
        /\ call.result.match = Match(CallPattern, Base(call.path))

\* a pattern without a separator matches a path that has directories before
\* its last component
C2_Witness ==
    /\ FilepathMatchCall
    /\ ~Contains(CallPattern, Slash)
    /\ Contains(call.path, Slash)
    /\ Base(call.path) # call.path
    /\ call.result.match

\* s without its leading separator
StripLeading(s) == IF s # Empty /\ s[1] = Slash THEN Tail(s) ELSE s

\* the pattern's components match the path's, one by one from the first
AnchoredAtRoot(pattern, path) ==
    LET pc == Split(StripLeading(pattern))
        fc == Split(StripLeading(path)) IN
    /\ Len(fc) >= Len(pc)
    /\ \A i \in 1..Len(pc) : Match(pc[i], fc[i])

\* what the tests say of the anchored patterns
AnchoredExamples ==
    /\ CallPattern = P_tmp /\ call.path = F_tmp_file => call.result.match
    /\ CallPattern = P_tmp /\ call.path = F_usr_tmp_file => ~call.result.match
    /\ CallPattern = P_axb /\ call.path = F_abcd => ~call.result.match
    /\ CallPattern = P_rootlogs /\ call.path = F_a_logs_file => ~call.result.match

\* C3, as claimed: every pattern with a leading separator matches exactly the
\* paths whose components it matches from the root.
C3_AnchoredAsClaimed ==
    FilepathMatchCall /\ CallPattern # Empty /\ CallPattern[1] = Slash =>
        /\ call.result.match = AnchoredAtRoot(CallPattern, call.path)
        /\ AnchoredExamples

\* C3, amended: a pattern with a leading separator and no trailing one matches
\* exactly the paths whose components it matches from the root.
C3_Anchored ==
    FilepathMatchCall /\ CallPattern # Empty /\ CallPattern[1] = Slash
                      /\ ~HasSuffix(CallPattern, Slash) =>
        /\ call.result.match = AnchoredAtRoot(CallPattern, call.path)
        /\ AnchoredExamples

\* an anchored pattern matches a path that has more components than it has
C3_Witness ==
    /\ FilepathMatchCall
    /\ Len(CallPattern) > 1
    /\ CallPattern[1] = Slash
    /\ ~HasSuffix(CallPattern, Slash)
    /\ Len(pathComponents(call.path)) > Len(Split(StripLeading(CallPattern)))
    /\ call.result.match

\* the pattern's components match those of the path from some offset on
AtSomeOffset(pattern, path) ==
    LET pc == Split(pattern)
        fc == Split(StripLeading(path)) IN
    \E i \in 0..Len(fc) :
        /\ Len(fc) - i >= Len(pc)
        /\ \A j \in 1..Len(pc) : Match(pc[j], fc[i + j])

\* a path with fewer components than the pattern
FewerComponents(pattern, path) ==
    Len(Split(StripLeading(path))) < Len(Split(pattern))

\* what the tests say of the unanchored patterns
UnanchoredExamples ==
    /\ CallPattern = P_logs /\ call.path \in {F_logs_file, F_tmp_logs_file}
          => call.result.match
    /\ CallPattern = P_logs /\ call.path \in {F_logs_abcde, F_abcd, F_root_logs_ab}
          => ~call.result.match

\* a pattern with a separator inside it and none at its start
Unanchored ==
    /\ CallPattern # Empty
    /\ CallPattern[1] # Slash
    /\ \E i \in 2..(Len(CallPattern) - 1) : CallPattern[i] = Slash

\* C4, as claimed: every pattern with an interior separator and no leading one matches
\* exactly the paths some window of whose components it matches, and no path
\* with fewer components than it has.
C4_UnanchoredAsClaimed ==
    FilepathMatchCall /\ Unanchored =>
        /\ call.result.match = AtSomeOffset(CallPattern, call.path)
        /\ FewerComponents(CallPattern, call.path) => ~call.result.match
        /\ UnanchoredExamples

\* C4, amended: a pattern with an interior separator, no leading and no
\* trailing one, matches exactly the paths some window of whose components it
\* matches, and no path with fewer components than it has.
C4_Unanchored ==
    FilepathMatchCall /\ Unanchored /\ ~HasSuffix(CallPattern, Slash) =>
        /\ call.result.match = AtSomeOffset(CallPattern, call.path)
        /\ FewerComponents(CallPattern, call.path) => ~call.result.match
        /\ UnanchoredExamples

\* an unanchored pattern matches at an offset past the path's first component
C4_Witness ==
    /\ FilepathMatchCall
    /\ Unanchored
    /\ ~HasSuffix(CallPattern, Slash)
    /\ call.result.match
    /\ ~fileComponentsMatch(Split(CallPattern), pathComponents(call.path))

\* the directories above the path: its prefixes that end before a separator
\* and leave something after it
DirectoriesAbove(path) ==
    {SubSeq(path, 1, k - 1) : k \in {k \in 2..(Len(path) - 1) : path[k] = Slash}}

\* C5: a pattern P ending in a separator matches what P without it matches and
\* what P followed by '*' matches; so it matches a directory the bare pattern
\* matches and every path beneath that directory; ".git/" matches /a/.git,
\* /a/.git/config and /a/.git/objects/ab/cd.
C5_DirectoryPattern ==
    FilepathMatchCall /\ HasSuffix(CallPattern, Slash) =>
        /\ call.result.match =
              (filepathMatch(DropLast(CallPattern), call.path)
                 \/ filepathMatch(CallPattern \o <<"*">>, call.path))
        /\ \A d \in DirectoriesAbove(call.path) :
              filepathMatch(DropLast(CallPattern), d) => call.result.match
        /\ CallPattern = P_git /\ call.path \in {F_git, F_git_config, F_git_deep}
              => call.result.match

\* ".git/" matches a path two levels beneath a directory .git, which neither
\* the bare pattern nor the base name accounts for
C5_Witness ==
    /\ FilepathMatchCall
    /\ CallPattern = P_git
    /\ call.path = F_git_deep
    /\ F_git \in DirectoriesAbove(call.path)
    /\ ~filepathMatch(DropLast(CallPattern), call.path)
    /\ call.result.match

-----------------------------------------------------------------------------
(* The walker: exclusion, the unchanged-time shortcut, re-walks *)

\* the entry of the last callback invocation, and what the invocation found
Visited == obs.last.outcome # "none"
VisitedPath == obs.last.path
RowBefore == obs.last.before

\* entry is beneath directory dir
Beneath(entry, dir) ==
    /\ Len(entry) > Len(dir) + 1
    /\ SubSeq(entry, 1, Len(dir) + 1) = dir \o <<Slash>>

\* the directories that ended in the exclusion branch in this walk
ExcludedDirs ==
    {d \in DOMAIN obs.outcome : obs.outcome[d] = "excluded" /\ KindOf(d) = "dir"}

\* C6: a directory that matches an exclusion pattern gets its exclusion record
\* and is not descended into: no entry beneath it is visited, recorded or
\* hashed in that walk.
C6_ExcludedDirectoryNotDescended ==
    \A d \in ExcludedDirs :
        /\ files[d].pattern # Null
        /\ \A entry \in Paths : Beneath(entry, d) =>
              /\ entry \notin obs.visited
              /\ entry \notin obs.hashed
              /\ entry \in DOMAIN files => entry \in DOMAIN obs.dbStart
                                           /\ files[entry] = obs.dbStart[entry]

\* the visit was stopped by the error memo
Remembered == ~cfg.retryErrors /\ RowBefore # Null /\ RowBefore[1].error # Null

\* the entry of the last visit matches an exclusion pattern, WalkDir reported
\* no error for it, the error memo does not hold it and it is no FIFO
ExcludedVisit ==
    /\ Visited
    /\ isExcluded(VisitedPath, cfg.patterns).match
    /\ obs.last.err = "nil"
    /\ ~Remembered
    /\ KindOf(VisitedPath) # "fifo"

\* the visit hashed nothing and left a record with the pattern and no hash
ExclusionRecorded ==
    /\ ~obs.last.hashed
    /\ VisitedPath \notin obs.hashed
    /\ VisitedPath \in DOMAIN files
    /\ files[VisitedPath].pattern = Valid(isExcluded(VisitedPath, cfg.patterns).pattern)
    /\ files[VisitedPath].hash = Null

\* C7, as claimed: every visited entry that matches an exclusion pattern, has
\* no walk error, no remembered error and is no FIFO, is not hashed and gets a
\* record with the matched pattern and a null hash.
C7_ExcludedAsClaimed == ExcludedVisit => ExclusionRecorded

\* C7, amended: every visited entry that matches an exclusion pattern, has no
\* walk error, no remembered error, whose metadata could be read and that is
\* no FIFO, is not hashed and gets a record with the matched pattern and a
\* null hash.
C7_ExcludedNeverHashed ==
    ExcludedVisit /\ KindOf(VisitedPath) # "gone" => ExclusionRecorded

\* a readable regular file that matches a pattern, on its first encounter
C7_Witness ==
    /\ ExcludedVisit
    /\ KindOf(VisitedPath) = "file"
    /\ fs[VisitedPath].mode = "ok"
    /\ RowBefore = Null
    /\ obs.last.outcome = "excluded"

\* the entry of the last visit is a regular file that matches no pattern
PlainFileVisit ==
    /\ Visited
    /\ KindOf(VisitedPath) = "file"
    /\ ~isExcluded(VisitedPath, cfg.patterns).match

\* the time of the file as the visit reads it
CurrentModTime(path) == Valid(FormatRFC3339(fs[path].mtime))

\* C8: when a regular file that matches no pattern is visited and its stored
\* record holds its current modification time, nothing is hashed and the
\* stored record stays as it was.
C8_UnchangedModTimeShortcut ==
    PlainFileVisit /\ RowBefore # Null /\ RowBefore[1].mtime = CurrentModTime(VisitedPath) =>
        /\ ~obs.last.hashed
        /\ files[VisitedPath] = RowBefore[1]

\* the shortcut is taken for a file with a stored hash whose content changed
C8_Witness ==
    /\ PlainFileVisit
    /\ RowBefore # Null
    /\ RowBefore[1].mtime = CurrentModTime(VisitedPath)
    /\ RowBefore[1].hash # Null
    /\ RowBefore[1].hash # Valid(Sha256(fs[VisitedPath].content))
    /\ obs.last.outcome = "unchanged"

\* the tree of this walk is the tree of the walk before: the same entries
\* with the same modification times and permissions
SameTree ==
    /\ obs.fsPrev # Null
    /\ obs.fsStart # Null
    /\ \A p \in Paths :
          /\ obs.fsPrev[1][p].mtime = obs.fsStart[1][p].mtime
          /\ obs.fsPrev[1][p].mode = obs.fsStart[1][p].mode

\* C9: a walk of the same tree, with the same patterns and flags and no
\* modification time changed since the walk before, hashes nothing and leaves
\* every stored hash as the walk before left it.
C9_RewalkIdempotent ==
    walkNo >= 2 /\ SameTree =>
        /\ obs.hashed = {}
        /\ DOMAIN files = DOMAIN obs.dbStart
        /\ \A p \in DOMAIN files : files[p].hash = obs.dbStart[p].hash

\* a second walk of the same tree has ended, and it went over hashed files
C9_Witness ==
    /\ walkNo >= 2
    /\ SameTree
    /\ phase = "idle"
    /\ {FileA, FileF} \subseteq obs.visited
    /\ files[FileA].hash = Valid(Sha256(fs[FileA].content))
    /\ files[FileF].hash # Null

\* a visit of a regular file that matches no pattern, whose stored record has
\* no error and that can be read now
ErrorFreeRevisit ==
    /\ PlainFileVisit
    /\ walkNo >= 2
    /\ RowBefore # Null
    /\ RowBefore[1].error = Null
    /\ fs[VisitedPath].mode = "ok"

\* the content the file had in the walk before
PreviousContent(path) == obs.fsPrev[1][path].content

\* C10: on the next walk of an error-free regular file that matches no
\* pattern: if its modification time differs from the stored one it is hashed
\* again and the stored hash and time become the new ones; if only its content
\* changed it is not hashed and the stored hash stays the old one.
C10_RehashOnModTimeOnly ==
    ErrorFreeRevisit =>
        /\ RowBefore[1].mtime # CurrentModTime(VisitedPath) =>
              /\ obs.last.hashed
              /\ files[VisitedPath].hash = Valid(Sha256(fs[VisitedPath].content))
              /\ files[VisitedPath].mtime = CurrentModTime(VisitedPath)
        /\ RowBefore[1].mtime = CurrentModTime(VisitedPath)
             /\ fs[VisitedPath].content # PreviousContent(VisitedPath) =>
              /\ ~obs.last.hashed
              /\ files[VisitedPath].hash = RowBefore[1].hash
              /\ RowBefore[1].hash = Valid(Sha256(PreviousContent(VisitedPath)))
                    => files[VisitedPath].hash # Valid(Sha256(fs[VisitedPath].content))

\* in one walk a file with a new time and a new content was hashed again, and
\* a file with only a new content kept the hash of its old content
C10_Witness ==
    /\ ErrorFreeRevisit
    /\ VisitedPath = FileF
    /\ RowBefore[1].mtime = CurrentModTime(FileF)
    /\ fs[FileF].content # PreviousContent(FileF)
    /\ files[FileF].hash = Valid(Sha256(PreviousContent(FileF)))
    /\ obs.outcome[FileA] = "hashed"
    /\ obs.dbStart[FileA].hash = Valid(Sha256(PreviousContent(FileA)))
    /\ obs.dbStart[FileA].mtime # CurrentModTime(FileA)
    /\ fs[FileA].content # PreviousContent(FileA)
    /\ files[FileA].hash = Valid(Sha256(fs[FileA].content))

-----------------------------------------------------------------------------
(* The walker: the error memo and the retry flag *)

\* the last visit found a stored error for its entry, and retry is off
MemoVisit ==
    /\ Visited
    /\ ~cfg.retryErrors
    /\ RowBefore # Null
    /\ RowBefore[1].error # Null

\* the last visit wrote no record, resolved no folder and hashed nothing
EntrySkipped ==
    /\ files[VisitedPath] = RowBefore[1]
    /\ folders = obs.last.foldersBefore
    /\ ~obs.last.hashed

\* the rows with an error at the start of this walk are as they were then
ErrorRowsKept(paths) ==
    \A p \in paths :
        p \in DOMAIN obs.dbStart /\ obs.dbStart[p].error # Null =>
            p \in DOMAIN files /\ files[p] = obs.dbStart[p]

\* C11, as claimed: with retry off, a visit of a path whose stored record has
\* an error writes no record, resolves no folder and hashes nothing, also when
\* the path matches an exclusion pattern; and a record with an error stays
\* exactly as it is through every later walk made without retry.
C11_ErrorMemoAsClaimed ==
    /\ MemoVisit => EntrySkipped
    /\ walkNo >= 2 /\ ~cfg.retryErrors => ErrorRowsKept(Paths)

\* the entries for which the enumeration reported an error in this walk
WalkErrors == {p \in DOMAIN obs.outcome : obs.outcome[p] = "walkError"}

\* C11, amended: with retry off, a visit for which the enumeration reports no
\* error, of a path whose stored record has an error, writes no record,
\* resolves no folder and hashes nothing, also when the path matches an
\* exclusion pattern; and a record with an error stays exactly as it is
\* through every later walk made without retry in which the enumeration
\* reports no error for its path.
C11_ErrorMemo ==
    /\ MemoVisit /\ obs.last.err = "nil" => EntrySkipped
    /\ walkNo >= 2 /\ ~cfg.retryErrors => ErrorRowsKept(Paths \ WalkErrors)

\* a path with a stored error that also matches an exclusion pattern is skipped
C11_Witness ==
    /\ MemoVisit
    /\ obs.last.err = "nil"
    /\ isExcluded(VisitedPath, cfg.patterns).match
    /\ obs.last.outcome = "remembered"
    /\ files[VisitedPath].pattern = Null

\* a regular file whose stored record, at the start of this walk, carries the
\* error of a failed open or read, and that can be read now, its time unchanged
FailedBefore(p) ==
    /\ KindOf(p) = "file"
    /\ p \in DOMAIN obs.dbStart
    /\ obs.dbStart[p].error # Null
    /\ obs.dbStart[p].hash = Null
    /\ obs.fsPrev # Null
    /\ obs.fsPrev[1][p].mode \in {"noopen", "readerr"}
    /\ obs.fsPrev[1][p].mtime = fs[p].mtime
    /\ fs[p].mode = "ok"

\* C12: with retry on, a regular file whose earlier open or hash attempt
\* failed and that is readable now, its modification time unchanged, ends
\* the retry walk with a record that has a hash and no error.
C12_RetryRehashes ==
    walkNo >= 2 /\ phase = "idle" /\ cfg.retryErrors =>
        \A p \in obs.visited : FailedBefore(p) =>
            /\ files[p].hash = Valid(Sha256(fs[p].content))
            /\ files[p].error = Null

-----------------------------------------------------------------------------
(* crawler.go, the -follow variant: filepath.Walk, getFileInfo, the set     *)
(* visitedSymlinks that main hands to every processDirectory call           *)

\* the trees of this variant: /t holds file a and link l, /u holds file b
\* and link m; each link names a directory by one of the texts of LinkTexts
TreeT == <<"/", "t">>
TreeU == <<"/", "u">>
FileTA == <<"/", "t", "/", "a">>
LinkTL == <<"/", "t", "/", "l">>
FileUB == <<"/", "u", "/", "b">>
LinkUM == <<"/", "u", "/", "m">>

FollowPaths == {TreeT, TreeU, FileTA, LinkTL, FileUB, LinkUM}

\* a third tree: /v holds file a, link k and file z, in the order of a listing
TreeV == <<"/", "v">>
FileVA == <<"/", "v", "/", "a">>
LinkVK == <<"/", "v", "/", "k">>
FileVZ == <<"/", "v", "/", "z">>

TreeVPaths == {TreeV, FileVA, LinkVK, FileVZ}

\* what os.Readlink can return for a link: the directories "/t", "/t/" and
\* "/u", and the regular file "/u/b"
LinkTexts == {TreeT, TreeT \o <<Slash>>, TreeU, FileUB}

\* the entry a path names: trailing separators do not count
Clean(path) == IF TrimSlashes(path) = Empty THEN <<Slash>> ELSE TrimSlashes(path)

\* os.Lstat(path).Mode(): the kind of the entry itself
LstatKind(path) ==
    CASE Clean(path) \in {TreeT, TreeU, TreeV} -> "dir"
      [] Clean(path) \in {FileTA, FileUB, FileVA, FileVZ} -> "file"
      [] Clean(path) \in {LinkTL, LinkUM, LinkVK} -> "symlink"

\* readDirNames: the names in a directory, sorted
ReadDirNames(path) ==
    CASE Clean(path) = TreeT -> << <<"a">>, <<"l">> >>
      [] Clean(path) = TreeU -> << <<"b">>, <<"m">> >>
      [] Clean(path) = TreeV -> << <<"a">>, <<"k">>, <<"z">> >>
      [] OTHER -> <<>>

\* getFileInfo(path, info, followSymlinks); the links of these trees are
\* readable and name no link, so os.Stat and os.Lstat of the target agree
getFileInfo(path) ==
    LET isSymlink == LstatKind(path) = "symlink"
        target == IF isSymlink THEN fs[Clean(path)].target ELSE path
        entry == Clean(target) IN
    [fileType |-> Ext(path),
     fileSize |-> IF LstatKind(entry) = "file" THEN fs[entry].content ELSE 0,
     creationTime |-> 0,
     modificationTime |-> FormatRFC3339(fs[entry].mtime),
     isDir |-> LstatKind(entry) = "dir",
     isSymlink |-> isSymlink,
     target |-> target]

\* a row of the files table of this variant, with the defaults of its schema
DefaultRow ==
    [type |-> Null, ctime |-> Null, mtime |-> Null, hash |-> Null, size |-> Null,
     skipped |-> 0, dir |-> 0, symlink |-> 0, followed |-> 0, target |-> Null,
     pattern |-> Null, error |-> Null, folder |-> Null]

\* INSERT OR REPLACE INTO files
Upsert(table, path, row) ==
    [q \in DOMAIN table \cup {path} |-> IF q = path THEN row ELSE table[q]]

\* the closure writeError(path, msg, err)
writeError(table, path, msg) ==
    Upsert(table, path, [DefaultRow EXCEPT !.error = Valid(msg)])

\* getFolderID of this variant: the row is inserted without a parent
getFolderIDFlat(table, path) ==
    LET id == FolderIdOf(table, path) IN
    IF id # 0 THEN [id |-> id, folders |-> table]
    ELSE [id |-> Len(table) + 1,
          folders |-> Append(table, [path |-> path, parent |-> Null])]

Bit(b) == IF b THEN 1 ELSE 0

\* what one call of walkFn leaves, and what it returns to filepath.Walk:
\* "nil", "SkipDir", or "Walk" when it returns the walk of the link's target
Outcome(table, folderTable, st, visited, ret, outcome) ==
    [files |-> table, folders |-> folderTable, stats |-> st, visited |-> visited,
     ret |-> ret, outcome |-> outcome]

\* a buggy loop check: no target is ever found in the set
alreadyVisitedNever(target) == FALSE

\* _, alreadyVisited := visitedSymlinks[target]
alreadyVisited(target) == target \in visitedSymlinks

\* a buggy insertion: the target is not added to the set
markVisitedNot(target) == visitedSymlinks

\* visitedSymlinks[target] = struct{}{}
markVisited(target) == visitedSymlinks \cup {target}

\* walkFn(path, info, err) of the -follow variant
followWalkFn(path, err) ==
    LET i == getFileInfo(path)
        got == getFolderIDFlat(folders, Dir(path))
        excluded == isExcluded(path, cfg.patterns)
        counted == Update(stats, path, i.fileSize)
        row == [DefaultRow EXCEPT !.type = Valid(i.fileType),
                                  !.ctime = Valid(i.creationTime),
                                  !.mtime = Valid(i.modificationTime),
                                  !.size = Valid(i.fileSize),
                                  !.folder = Valid(got.id)] IN
    IF err # "nil"
    THEN Outcome(files, folders, stats, visitedSymlinks, "nil", "walkError")
    ELSE IF LstatKind(path) = "fifo"
    THEN Outcome(writeError(files, path, "FIFO: %!s(<nil>)"), folders, stats,
                 visitedSymlinks, "nil", "fifo")
    ELSE IF ~cfg.retryErrors /\ storedError(path)
    THEN Outcome(files, folders, stats, visitedSymlinks, "nil", "remembered")
    ELSE IF excluded.match
    THEN Outcome(Upsert(files, path, [row EXCEPT !.skipped = 1,
                                                 !.dir = Bit(i.isDir),
                                                 !.symlink = Bit(i.isSymlink),
                                                 !.pattern = Valid(excluded.pattern)]),
                 got.folders, stats, visitedSymlinks,
                 IF i.isDir THEN "SkipDir" ELSE "nil", "excluded")
    ELSE IF i.isDir
    THEN IF i.isSymlink /\ cfg.followSymlinks
         THEN IF alreadyVisited(i.target)
              THEN Outcome(files, got.folders, stats, visitedSymlinks, "nil", "loop")
              ELSE Outcome(files, got.folders, stats, markVisited(i.target),
                           "Walk", "followed")
         ELSE Outcome(files, got.folders, stats, visitedSymlinks, "nil", "dir")
    ELSE IF path \in DOMAIN files /\ files[path].mtime = Valid(i.modificationTime)
    THEN Outcome(files, got.folders, counted, visitedSymlinks, "nil", "unchanged")
    ELSE Outcome(Upsert(files, path,
                        [row EXCEPT !.hash = Valid(Sha256(fs[Clean(i.target)].content)),
                                    !.symlink = Bit(i.isSymlink),
                                    !.followed = Bit(cfg.followSymlinks),
                                    !.target = Valid(IF i.isSymlink THEN i.target ELSE Empty)]),
                 got.folders, counted, visitedSymlinks, "nil", "hashed")

\* the entries of a directory, as the loop of walk visits them
FollowChildren(path) ==
    LET names == ReadDirNames(path) IN
    [k \in 1..Len(names) |-> Item(Join(Clean(path), names[k]), "nil")]

\* filepath.Walk after walkFn returned ret for the first item of the top loop:
\* the walk of a link's target runs inside walkFn, before the next sibling
AfterWalkFn(stack, ret, target) ==
    LET item == Head(Head(stack))
        isDir == LstatKind(item.path) = "dir"
        rest == <<Tail(Head(stack))>> \o Tail(stack) IN
    CASE ret = "SkipDir" -> IF isDir THEN rest ELSE Tail(stack)
      [] ret = "Walk" -> << <<Item(target, "nil")>> >> \o rest
      [] OTHER -> IF isDir THEN <<FollowChildren(item.path)>> \o rest ELSE rest

\* nothing seen yet in this process
NoFollowVisit ==
    [path |-> Empty, outcome |-> "none", target |-> Empty, filesBefore |-> NoRows,
     visitedBefore |-> {}, todoBefore |-> <<>>]

\* the history of the -follow runs: the targets whose walks were started, with
\* the number of the root argument under which each was started, and the last call
NoFollowObs == [followed |-> <<>>, last |-> NoFollowVisit]

\* a buggy hand-over: every root argument starts with an empty set
handedToRootFresh(visited) == {}

\* the map main made once is the one every processDirectory call gets
handedToRoot(visited) == visited

\* main calls processDirectory for the next root argument
StartFollowWalk ==
    /\ phase = "idle"
    /\ walkNo < Len(cfg.roots)
    /\ phase' = "walking"
    /\ walkNo' = walkNo + 1
    /\ todo' = << <<Item(cfg.roots[walkNo + 1], "nil")>> >>
    /\ visitedSymlinks' = handedToRoot(visitedSymlinks)
    /\ obs' = [obs EXCEPT !.last = [NoFollowVisit EXCEPT !.visitedBefore = visitedSymlinks]]
    /\ UNCHANGED <<call, fs, cfg, files, folders, stats>>

\* filepath.Walk calls walkFn for the next entry
FollowVisit ==
    /\ phase = "walking"
    /\ todo # <<>>
    /\ LET item == Head(Head(todo))
           r == followWalkFn(item.path, item.err)
           target == getFileInfo(item.path).target IN
       /\ files' = r.files
       /\ folders' = r.folders
       /\ stats' = r.stats
       /\ visitedSymlinks' = r.visited
       /\ todo' = Unwind(AfterWalkFn(todo, r.ret, target))
       /\ obs' = [followed |-> IF r.ret = "Walk"
                               THEN Append(obs.followed, [target |-> target, root |-> walkNo])
                               ELSE obs.followed,
                  last |-> [path |-> item.path, outcome |-> r.outcome, target |-> target,
                            filesBefore |-> files, visitedBefore |-> visitedSymlinks,
                            todoBefore |-> todo]]
    /\ UNCHANGED <<call, fs, cfg, phase, walkNo>>

\* filepath.Walk returns, and processDirectory with it
FinishFollowWalk ==
    /\ phase = "walking"
    /\ todo = <<>>
    /\ phase' = "idle"
    /\ UNCHANGED <<call, fs, cfg, files, folders, stats, todo, walkNo, obs, visitedSymlinks>>

\* the root arguments of a run
RootLists == {<<TreeT>>, <<TreeU>>, <<TreeT, TreeU>>, <<TreeU, TreeT>>, <<TreeT, TreeT>>}

\* the exclusion lists of the -follow runs
FollowPatternLists == {<<>>, << <<"m">> >>}

FollowConfigs ==
    [patterns : FollowPatternLists, retryErrors : BOOLEAN, followSymlinks : BOOLEAN,
     roots : RootLists]

\* the trees a run can find: every choice of the two link texts
FollowFs ==
    {f \in [FollowPaths -> [mtime : {0}, content : {1}, mode : {"ok"}, target : LinkTexts \cup {Empty}]] :
        \A p \in FollowPaths : (f[p].target # Empty) = (LstatKind(p) = "symlink")}

InitFollow ==
    /\ call = NoCall
    /\ fs \in FollowFs
    /\ cfg \in FollowConfigs
    /\ files = NoRows
    /\ folders = <<>>
    /\ stats = NewProcessStats
    /\ phase = "idle"
    /\ todo = <<>>
    /\ walkNo = 0
    /\ obs = NoFollowObs
    /\ visitedSymlinks = {}

NextFollow ==
    \/ StartFollowWalk
    \/ FollowVisit
    \/ FinishFollowWalk

SpecFollow == InitFollow /\ [][NextFollow]_vars

-----------------------------------------------------------------------------
(* The -follow variant: loops and the scope of the visited set *)

\* the last call of walkFn, and the target of the link it was called for
FollowOutcome == obs.last.outcome
FollowTarget == obs.last.target

\* the walk went on with the next sibling: no walk of a target was started
NotTraversed ==
    todo = Unwind(<<Tail(Head(obs.last.todoBefore))>> \o Tail(obs.last.todoBefore))

\* the targets whose walks were started so far in this process
FollowedTargets == {obs.followed[k].target : k \in 1..Len(obs.followed)}

C14_VisitedSetPerProcess ==
    /\ obs.last.visitedBefore \subseteq visitedSymlinks
    /\ visitedSymlinks = FollowedTargets
    /\ \A j, k \in 1..Len(obs.followed) :
          obs.followed[j].root < obs.followed[k].root =>
              obs.followed[j].target # obs.followed[k].target

\* under the second root a link names a target followed under the first, and
\* is taken as a loop
C14_Witness ==
    /\ walkNo = 2
    /\ FollowOutcome = "loop"
    /\ \E k \in 1..Len(obs.followed) :
          obs.followed[k].root = 1 /\ obs.followed[k].target = FollowTarget
    /\ visitedSymlinks # {}

-----------------------------------------------------------------------------
(* file_info.go: getFolderID over a store whose statements can fail *)

\* the longest chain of folders a resolved path has, "/" included
MaxDepth == 3

\* the statements one call can run: a SELECT and an INSERT for every folder
MaxOps == 2 * MaxDepth

\* the absolute directory paths handed to getFolderID
FolderPaths ==
    {p \in StringsUpTo({"a", "b", Slash}, 2 * MaxDepth - 2) :
        /\ p # Empty
        /\ p[1] = Slash
        /\ Clean(p) = p
        /\ \A k \in 1..(Len(p) - 1) : ~(p[k] = Slash /\ p[k + 1] = Slash)
        /\ Len(Split(p)) <= MaxDepth
        /\ \A k \in 1..Len(Split(p)) : Len(Split(p)[k]) <= 1}

\* a buggy row: the folder is inserted without its parent
folderRowNoParent(path, parentId) == [path |-> path, parent |-> Null]

\* INSERT INTO folders(path, parent_id) VALUES (?, ?)
folderRow(path, parentId) == [path |-> path, parent |-> Valid(parentId)]

\* a buggy lookup: the query finds no row
FolderQueryNever(table, path) == 0

\* SELECT id FROM folders WHERE path=?
FolderQuery(table, path) == FolderIdOf(table, path)

\* the result of getFolderID: the id, whether an error is returned, the table
\* after the call and the statements left before the store fails
Resolved(id, table, ops) == [id |-> id, err |-> FALSE, folders |-> table, ops |-> ops]
Failed(table) == [id |-> 0, err |-> TRUE, folders |-> table, ops |-> 0]

\* getFolderID(db, path) when the store fails at its statement number ops + 1
RECURSIVE getFolderIDFailing(_, _, _)
getFolderIDFailing(table, path, ops) ==
    LET id == FolderQuery(table, path) IN
    IF ops = 0 THEN Failed(table)
    ELSE IF id # 0 THEN Resolved(id, table, ops - 1)
    ELSE IF path = <<Slash>>
    THEN IF ops = 1 THEN Failed(table)
         ELSE Resolved(Len(table) + 1, Append(table, [path |-> path, parent |-> Null]),
                       ops - 2)
    ELSE LET up == getFolderIDFailing(table, Dir(path), ops - 1) IN
         IF up.err \/ up.ops = 0 THEN Failed(up.folders)
         ELSE Resolved(Len(up.folders) + 1,
                       Append(up.folders, folderRow(path, up.id)), up.ops - 1)

NoFolderCall ==
    [fn |-> "none", path |-> Empty, id |-> 0, err |-> FALSE, foldersBefore |-> <<>>,
     idsBefore |-> [q \in {} |-> 0]]

\* one call getFolderID(db, path); obs keeps the id every path got when it was
\* first resolved
CallGetFolderID ==
    /\ \E path \in FolderPaths, ops \in 0..MaxOps :
          LET r == getFolderIDFailing(folders, path, ops) IN
          /\ folders' = r.folders
          /\ call' = [fn |-> "getFolderID", path |-> path, id |-> r.id, err |-> r.err,
                      foldersBefore |-> folders, idsBefore |-> obs]
          /\ obs' = IF r.err \/ path \in DOMAIN obs THEN obs
                    ELSE [q \in DOMAIN obs \cup {path} |-> IF q = path THEN r.id ELSE obs[q]]
    /\ UNCHANGED <<fs, cfg, files, stats, phase, todo, walkNo, visitedSymlinks>>

InitFolders ==
    /\ call = NoFolderCall
    /\ fs = [p \in Paths |-> [mtime |-> 0, content |-> 1, mode |-> "ok"]]
    /\ cfg = [patterns |-> <<>>, retryErrors |-> FALSE]
    /\ files = NoRows
    /\ folders = <<>>
    /\ stats = NewProcessStats
    /\ phase = "idle"
    /\ todo = <<>>
    /\ walkNo = 0
    /\ obs = [q \in {} |-> 0]
    /\ visitedSymlinks = {}

NextFolders == CallGetFolderID

SpecFolders == InitFolders /\ [][NextFolders]_vars

-----------------------------------------------------------------------------
(* The folders table *)

GetFolderIDCall == call.fn = "getFolderID"

\* C15: a successful resolution of a path that was resolved before returns
\* the id it got the first time and inserts no row; the folders table never
\* holds two rows with one path.
C15_GetFolderIDIdempotent ==
    /\ GetFolderIDCall /\ ~call.err /\ call.path \in DOMAIN call.idsBefore =>
          /\ call.id = call.idsBefore[call.path]
          /\ folders = call.foldersBefore
    /\ \A j, k \in 1..Len(folders) : folders[j].path = folders[k].path => j = k

\* a path MaxDepth folders deep, "/" included, is resolved a second time
C15_Witness ==
    /\ GetFolderIDCall
    /\ ~call.err
    /\ call.path \in DOMAIN call.idsBefore
    /\ Len(Split(call.path)) >= MaxDepth
    /\ Len(folders) >= MaxDepth

\* following parent ids from row k ends at the row of "/" and repeats no row
RECURSIVE ChainToRoot(_, _)
ChainToRoot(k, seen) ==
    IF k \in seen \/ k \notin 1..Len(folders) THEN FALSE
    ELSE IF folders[k].parent = Null THEN folders[k].path = <<Slash>>
    ELSE ChainToRoot(folders[k].parent[1], seen \cup {k})

\* C16: after any calls of getFolderID on absolute paths, failed ones
\* included, every folder row but that of "/" has as parent_id the id of the
\* row of its parent directory, only the row of "/" has none, and the parent
\* ids lead from every row to "/" without repeating a row.
C16_NoOrphanedFolders ==
    \A k \in 1..Len(folders) :
        /\ (folders[k].parent = Null) = (folders[k].path = <<Slash>>)
        /\ folders[k].parent # Null =>
              /\ folders[k].parent[1] \in 1..Len(folders)
              /\ folders[folders[k].parent[1]].path = Dir(folders[k].path)
        /\ ChainToRoot(k, {})

\* a call failed after it had inserted some of the folders above its path
C16_Witness ==
    /\ GetFolderIDCall
    /\ call.err
    /\ Len(folders) >= Len(call.foldersBefore) + 2
    /\ folders[Len(folders)].parent # Null

-----------------------------------------------------------------------------
(* The walker over a store whose writes can fail and a root that can be gone *)

\* the branches of the callback that end in FileInfo.WriteToDatabase
WritesRecord(outcome) == outcome \notin {"remembered", "unchanged"}

\* the branches in which stats.Update has run before the write
CountedBeforeWrite(outcome) == outcome \in {"openError", "hashError", "hashed"}

\* the callback when db.Exec of WriteToDatabase fails: log.Fatalln ends the
\* process, the entries not yet visited stay unvisited
VisitWriteFails ==
    /\ phase = "walking"
    /\ todo # <<>>
    /\ ~NilEntry(Head(Head(todo)))
    /\ LET item == Head(Head(todo))
           r == walkFn(item.path, item.err) IN
       /\ WritesRecord(r.outcome)
       /\ folders' = r.folders
       /\ stats' = IF CountedBeforeWrite(r.outcome) THEN r.stats ELSE stats
       /\ obs' = [obs EXCEPT
                    !.visited = @ \cup {item.path},
                    !.hashed = IF r.hashed THEN @ \cup {item.path} ELSE @,
                    !.outcome = [q \in DOMAIN @ \cup {item.path} |->
                                    IF q = item.path THEN "fatal" ELSE @[q]],
                    !.last = [path |-> item.path, err |-> item.err,
                              before |-> IF item.path \in DOMAIN files
                                         THEN Valid(files[item.path]) ELSE Null,
                              foldersBefore |-> folders,
                              outcome |-> "fatal", hashed |-> r.hashed]]
    /\ phase' = "exited"
    /\ UNCHANGED <<call, fs, cfg, files, todo, walkNo, visitedSymlinks>>

\* a buggy UpdateFolderId: the failure of getFolderID is written nowhere
folderErrorUnrecorded(path, folderTable) ==
    Return(files, folderTable, stats, "folderError", FALSE)

\* FileInfo.UpdateFolderId when getFolderID fails: the error record of the
\* entry, with the folder id 0 the failed call returned, and the callback
\* returns nil
folderError(path, folderTable) ==
    Return(WriteError(files, NewFileInfo(path),
                      Sprintf("getting folder ID", "database is locked")),
           folderTable, stats, "folderError", FALSE)

\* the callback when a statement of getFolderID fails: the folders inserted
\* before the failure stay
VisitFolderFails ==
    /\ phase = "walking"
    /\ todo # <<>>
    /\ ~NilEntry(Head(Head(todo)))
    /\ LET item == Head(Head(todo)) IN
       /\ item.err = "nil"
       /\ cfg.retryErrors \/ ~storedError(item.path)
       /\ \E ops \in 0..MaxOps :
             LET got == getFolderIDFailing(folders, Dir(item.path), ops)
                 r == folderError(item.path, got.folders) IN
             /\ got.err
             /\ files' = r.files
             /\ folders' = r.folders
             /\ todo' = Unwind(AfterCallback(todo, r.ret))
             /\ obs' = [obs EXCEPT
                          !.visited = @ \cup {item.path},
                          !.outcome = [q \in DOMAIN @ \cup {item.path} |->
                                          IF q = item.path THEN r.outcome ELSE @[q]],
                          !.last = [path |-> item.path, err |-> item.err,
                                    before |-> IF item.path \in DOMAIN files
                                               THEN Valid(files[item.path]) ELSE Null,
                                    foldersBefore |-> folders,
                                    outcome |-> r.outcome, hashed |-> r.hashed]]
    /\ UNCHANGED <<call, fs, cfg, stats, phase, walkNo, visitedSymlinks>>

\* the callback for a root whose lstat failed: NewFileInfo calls d.Name() on
\* the nil DirEntry, the process ends in a panic
VisitPanics ==
    /\ phase = "walking"
    /\ todo # <<>>
    /\ NilEntry(Head(Head(todo)))
    /\ phase' = "panicked"
    /\ obs' = [obs EXCEPT
                 !.visited = @ \cup {Root},
                 !.outcome = [q \in DOMAIN @ \cup {Root} |-> IF q = Root THEN "panic" ELSE @[q]],
                 !.last = [path |-> Root, err |-> Head(Head(todo)).err,
                           before |-> IF Root \in DOMAIN files
                                      THEN Valid(files[Root]) ELSE Null,
                           foldersBefore |-> folders,
                           outcome |-> "panic", hashed |-> FALSE]]
    /\ UNCHANGED <<call, fs, cfg, files, folders, stats, todo, walkNo, visitedSymlinks>>

\* the root is removed, or comes back, between two runs
RootComesAndGoes ==
    /\ BetweenWalks
    /\ fs' = [fs EXCEPT ![Root].mode = IF @ = "nostat" THEN "ok" ELSE "nostat"]
    /\ UNCHANGED <<call, cfg, files, folders, stats, phase, todo, walkNo, obs, visitedSymlinks>>

\* the filesystems a first run can find, a missing root among them
FaultyFs ==
    {f \in [Paths -> [mtime : {0}, content : {1},
                      mode : {"ok", "noopen", "readerr", "nolist", "nolistio", "nostat"}]] :
        \A p \in Paths : f[p].mode \in ModesOf(p) \cup (IF p = Root THEN {"nostat"} ELSE {})}

InitFaulty ==
    /\ call = NoCall
    /\ fs \in FaultyFs
    /\ cfg \in Configs
    /\ files = NoRows
    /\ folders = <<>>
    /\ stats = NewProcessStats
    /\ phase = "idle"
    /\ todo = <<>>
    /\ walkNo = 0
    /\ obs = NewObs(Null, Null, NoRows)
    /\ visitedSymlinks = {}

NextFaulty ==
    \/ StartWalk
    \/ Visit
    \/ FinishWalk
    \/ VisitWriteFails
    \/ VisitPanics
    \/ RootComesAndGoes

SpecFaulty == InitFaulty /\ [][NextFaulty]_vars

-----------------------------------------------------------------------------
(* The walker: failures stay local *)

\* entries of the walk that were handed to WalkDir's loops and not visited
Pending == todo # <<>>

\* C17: a failure while one entry is processed, the failure of the record
\* write included, never aborts the walk: the process does not end while
\* entries are left to visit.
C17_ErrorsAreLocal ==
    /\ phase \in {"idle", "walking"}
    /\ phase # "walking" => ~Pending

\* C18: when the enumeration reports an error for a path, for the root whose
\* lstat failed or for a directory whose listing failed, the walker writes an
\* error record for that path and goes on; the process does not crash.
C18_WalkErrorRecorded ==
    /\ phase # "panicked"
    /\ Visited /\ obs.last.err # "nil" /\ phase \in {"idle", "walking"} =>
          /\ VisitedPath \in DOMAIN files
          /\ files[VisitedPath].error # Null

-----------------------------------------------------------------------------
(* The walker: named pipes *)

\* the last step visited a named pipe
FifoVisit == Visited /\ KindOf(VisitedPath) = "fifo" /\ obs.last.err = "nil"

\* C19: a named pipe is never opened or read: after a visit its record has
\* the FIFO error and no hash, and no exclusion pattern even when a pattern of
\* the list matches it, the FIFO check coming before the exclusion check.
C19_FifoNeverRead ==
    FifoVisit =>
        /\ ~obs.last.hashed
        /\ VisitedPath \notin obs.hashed
        /\ VisitedPath \in DOMAIN files
        /\ files[VisitedPath].error = Valid("FIFO: %!s(<nil>)")
        /\ files[VisitedPath].hash = Null
        /\ files[VisitedPath].pattern = Null

\* a named pipe that a pattern of the list matches has been visited and
\* its record written
C19_Witness ==
    /\ FifoVisit
    /\ obs.last.outcome = "fifo"
    /\ isExcluded(VisitedPath, cfg.patterns).match

-----------------------------------------------------------------------------
(* One walk of the tree /e with the exclusion list ["*.txt"] *)

\* the content "hello": five bytes
Hello == 5

StarTxt == <<"*", ".", "t", "x", "t">>

\* /e at the run: b.log holds "hello", a.txt anything; every entry is readable
TreeEFs ==
    {f \in [TreeEPaths -> [mtime : 0..MaxTick, content : Contents \cup {Hello}, mode : {"ok"}]] :
        /\ f[FileBLog].content = Hello
        /\ \A p \in TreeEPaths \ {FileATxt, FileBLog} : f[p].mtime = 0 /\ f[p].content = 1}

\* crawler -exclude "*.txt" /e, with or without -retry and extra logging
TreeEConfigs ==
    [patterns : {<<StarTxt>>}, retryErrors : BOOLEAN, root : {TreeE},
     extraLogging : BOOLEAN]

InitTreeE ==
    /\ call = NoCall
    /\ fs \in TreeEFs
    /\ cfg \in TreeEConfigs
    /\ files = NoRows
    /\ folders = <<>>
    /\ stats = NewProcessStats
    /\ phase = "idle"
    /\ todo = <<>>
    /\ walkNo = 0
    /\ obs = NewObs(Null, Null, NoRows)
    /\ visitedSymlinks = {}

NextTreeE ==
    \/ StartWalk
    \/ Visit
    \/ FinishWalk

SpecTreeE == InitTreeE /\ [][NextTreeE]_vars

\* the first walk has ended
WalkedOnce == phase = "idle" /\ walkNo = 1

\* the rows of the scenario that do not depend on the text of the FIFO error
TreeERowsButFifoText ==
    WalkedOnce =>
        /\ {FileATxt, FileBLog, FifoEP} \subseteq DOMAIN files
        /\ files[FileATxt].pattern = Valid(StarTxt)
        /\ files[FileATxt].hash = Null
        /\ files[FileBLog].hash = Valid(Sha256(Hello))
        /\ files[FileBLog].size = Hello
        /\ files[FileBLog].error = Null
        /\ files[FileBLog].pattern = Null
        /\ files[FifoEP].hash = Null

\* C20: after one walk of /e on an empty store with the list ["*.txt"], the
\* a.txt row has the pattern "*.txt" and no hash, the b.log row has the
\* SHA-256 of "hello", size 5, no error and no pattern, and the p row has the
\* error "FIFO: <nil>" and no hash.
C20_EndToEnd ==
    /\ TreeERowsButFifoText
    /\ WalkedOnce => files[FifoEP].error = Valid("FIFO: <nil>")

-----------------------------------------------------------------------------
(* file_info.go: ProcessStats.Update and the reporter goroutine *)

\* the Update calls of one run
MaxUpdates == 3

\* the paths and sizes the walker hands to Update
UpdatePaths == {FileA, FileF}
UpdateSizes == {0, 1, 2}

\* the walker is between two statements of Update, the reporter between two
\* statements of Print
NoUpdate == [pc |-> "idle", path |-> Empty, size |-> 0, done |-> 0]
NoPrint == [pc |-> "idle", files |-> 0, bytes |-> 0]

\* atomic.AddInt64(&stats.FilesProcessed, 1)
UpdateAddFiles ==
    /\ call.walker.pc = "idle"
    /\ call.walker.done < MaxUpdates
    /\ \E path \in UpdatePaths, size \in UpdateSizes :
          /\ call' = [call EXCEPT !.walker = [pc |-> "addedFiles", path |-> path,
                                              size |-> size, done |-> @.done]]
          /\ obs' = [obs EXCEPT !.states = @ \cup {Update(stats, path, size)}]
    /\ stats' = [stats EXCEPT !.files = @ + 1]
    /\ UNCHANGED <<fs, cfg, files, folders, phase, todo, walkNo, visitedSymlinks>>

\* a buggy Update: the byte count is stored, not added to
UpdateStoreBytes ==
    /\ call.walker.pc = "addedFiles"
    /\ stats' = [stats EXCEPT !.bytes = call.walker.size]
    /\ call' = [call EXCEPT !.walker.pc = "addedBytes"]
    /\ UNCHANGED <<fs, cfg, files, folders, phase, todo, walkNo, obs, visitedSymlinks>>

\* atomic.AddInt64(&stats.BytesProcessed, fileSize)
UpdateAddBytes ==
    /\ call.walker.pc = "addedFiles"
    /\ stats' = [stats EXCEPT !.bytes = @ + call.walker.size]
    /\ call' = [call EXCEPT !.walker.pc = "addedBytes"]
    /\ UNCHANGED <<fs, cfg, files, folders, phase, todo, walkNo, obs, visitedSymlinks>>

\* stats.lastProcessedFile.Store(path); Update returns
UpdateStoreLast ==
    /\ call.walker.pc = "addedBytes"
    /\ stats' = [stats EXCEPT !.last = call.walker.path]
    /\ call' = [call EXCEPT !.walker.pc = "idle", !.walker.done = @ + 1]
    /\ UNCHANGED <<fs, cfg, files, folders, phase, todo, walkNo, obs, visitedSymlinks>>

\* Print: files := atomic.LoadInt64(&stats.FilesProcessed)
PrintLoadFiles ==
    /\ call.reporter.pc = "idle"
    /\ call' = [call EXCEPT !.reporter = [pc |-> "loadedFiles", files |-> stats.files,
                                          bytes |-> 0]]
    /\ obs' = [obs EXCEPT !.read = Null]
    /\ UNCHANGED <<fs, cfg, files, folders, stats, phase, todo, walkNo, visitedSymlinks>>

\* Print: bytes := atomic.LoadInt64(&stats.BytesProcessed)
PrintLoadBytes ==
    /\ call.reporter.pc = "loadedFiles"
    /\ call' = [call EXCEPT !.reporter.pc = "loadedBytes", !.reporter.bytes = stats.bytes]
    /\ UNCHANGED <<fs, cfg, files, folders, stats, phase, todo, walkNo, obs, visitedSymlinks>>

\* Print: stats.lastProcessedFile.Load(), after the first line is printed;
\* the reporter then waits for the next tick
PrintLoadLast ==
    /\ call.reporter.pc = "loadedBytes"
    /\ obs' = [obs EXCEPT !.read = Valid([files |-> call.reporter.files,
                                          bytes |-> call.reporter.bytes,
                                          last |-> stats.last])]
    /\ call' = [call EXCEPT !.reporter = NoPrint]
    /\ UNCHANGED <<fs, cfg, files, folders, stats, phase, todo, walkNo, visitedSymlinks>>

\* main: stats := NewProcessStats(), then the reporter goroutine and the walker
InitStats ==
    /\ call = [walker |-> NoUpdate, reporter |-> NoPrint]
    /\ fs = [p \in {} |-> Null]
    /\ cfg = [patterns |-> <<>>, retryErrors |-> FALSE]
    /\ files = NoRows
    /\ folders = <<>>
    /\ stats = NewProcessStats
    /\ phase = "walking"
    /\ todo = <<>>
    /\ walkNo = 0
    /\ obs = [states |-> {NewProcessStats}, read |-> Null]
    /\ visitedSymlinks = {}

NextStats ==
    \/ UpdateAddFiles
    \/ UpdateAddBytes
    \/ UpdateStoreLast
    \/ PrintLoadFiles
    \/ PrintLoadBytes
    \/ PrintLoadLast

SpecStats == InitStats /\ [][NextStats]_vars

\* C21: Update is atomic for the reporter: every triple of file count, byte
\* count and last path that Print reads is the state of the counters after a
\* whole number of Update calls (obs.states: the state at the start and the
\* state each Update call leaves).
C21_UpdateAtomic ==
    obs.read # Null => obs.read[1] \in obs.states

-----------------------------------------------------------------------------
(* The walker: the progress counters *)

\* the outcomes of a visit that classify the entry without an error
ClassifiedOutcomes == {"excluded", "dirOrSymlink", "unchanged", "hashed"}

\* this step is a call of the callback
CallbackStep == phase = "walking" /\ todo # <<>> /\ todo' # todo

\* C22: the progress counters are updated exactly once for each entry that is
\* classified without error (excluded, directory, symlink, regular file hashed
\* or left by the unchanged-time shortcut): the file count grows by one and
\* the byte count by the entry's size; a visit that ends in an error record or
\* that the error memo skips leaves the counters alone.
C22_CountedOncePerClassified ==
    [][CallbackStep =>
         LET path == obs'.last.path IN
         IF obs'.last.outcome \in ClassifiedOutcomes
         THEN /\ stats'.files = stats.files + 1
              /\ stats'.bytes = stats.bytes + SizeOf(path)
         ELSE /\ stats'.files = stats.files
              /\ stats'.bytes = stats.bytes]_vars

-----------------------------------------------------------------------------
(* The walker with and without extra logging *)

\* the filesystems of a run: a file whose seek fails among them
LoggingFs ==
    {f \in [Paths -> [mtime : {0}, content : {1},
                      mode : {"ok", "noopen", "readerr", "seekerr", "nolist", "nolistio"}]] :
        \A p \in Paths : f[p].mode \in ModesOf(p) \cup (IF p = FileA THEN {"seekerr"} ELSE {})}

\* the flags of main, -extra-logging among them
LoggingConfigs ==
    [patterns : WalkPatternLists, retryErrors : BOOLEAN, root : {Root},
     extraLogging : BOOLEAN]

InitLogging ==
    /\ call = NoCall
    /\ fs \in LoggingFs
    /\ cfg \in LoggingConfigs
    /\ files = NoRows
    /\ folders = <<>>
    /\ stats = NewProcessStats
    /\ phase = "idle"
    /\ todo = <<>>
    /\ walkNo = 0
    /\ obs = NewObs(Null, Null, NoRows)
    /\ visitedSymlinks = {}

NextLogging ==
    \/ StartWalk
    \/ Visit
    \/ FinishWalk
    \/ Touch
    \/ Chmod

SpecLogging == InitLogging /\ [][NextLogging]_vars

\* the last step visited a file whose open or read failed
HashFailureVisit == Visited /\ obs.last.outcome \in {"openError", "hashError"}

\* the entries WalkDir's loop over the directory of path has left after path
SiblingsAfter(path) ==
    LET sibs == Children(Dir(path))
        i == CHOOSE k \in 1..Len(sibs) : sibs[k].path = path IN
    SubSeq(sibs, i + 1, Len(sibs))

\* C23: a failure to open or to read a file while it is hashed is recorded as
\* an error on the record of that file, which gets no hash in that visit, and
\* the walk goes on: the siblings after the file are the next to be visited.
C23_HashFailureRecorded ==
    HashFailureVisit =>
        /\ VisitedPath \in DOMAIN files
        /\ files[VisitedPath].error # Null
        /\ files[VisitedPath].hash = Null
        /\ phase = "walking"
        /\ SiblingsAfter(VisitedPath) # <<>> =>
              todo # <<>> /\ Head(todo) = SiblingsAfter(VisitedPath)

\* a file that had a hash failed to be read and its siblings wait to be visited
C23_Witness ==
    /\ HashFailureVisit
    /\ obs.last.outcome = "hashError"
    /\ obs.last.before # Null
    /\ obs.last.before[1].hash # Null
    /\ SiblingsAfter(VisitedPath) # <<>>

\* the last step visited a regular file and called UpdateHash for it
UpdateHashVisit == Visited /\ obs.last.outcome \in {"hashed", "openError", "hashError"}

\* the record the same visit leaves when extra logging is switched the other
\* way: the callback uses the flag in UpdateHash alone (its other uses only
\* log), so the record differs in the error and the hash UpdateHash gives
RecordUnderOtherSetting ==
    LET other == UpdateHash(VisitedPath, ~cfg.extraLogging) IN
    [files[VisitedPath] EXCEPT
        !.error = IF other.err = "nil" THEN Null ELSE Valid(other.err),
        !.hash = other.hash]

\* C24: extra logging does not alter what is stored: from the same store and
\* the same filesystem, with the same outcomes of the I/O operations, a visit
\* leaves the same record with extra logging as without it, and so a walk
\* leaves the same file and folder records.
C24_LoggingLeavesRecordsAlone ==
    UpdateHashVisit => files[VisitedPath] = RecordUnderOtherSetting

-----------------------------------------------------------------------------
(* The walker: a folder lookup that fails *)

\* a tree whose entries are all readable, over a store whose statements fail
InitFolderFault ==
    /\ call = NoCall
    /\ fs = [p \in Paths |-> [mtime |-> 0, content |-> 1, mode |-> "ok"]]
    /\ cfg \in Configs
    /\ files = NoRows
    /\ folders = <<>>
    /\ stats = NewProcessStats
    /\ phase = "idle"
    /\ todo = <<>>
    /\ walkNo = 0
    /\ obs = NewObs(Null, Null, NoRows)
    /\ visitedSymlinks = {}

NextFolderFault ==
    \/ StartWalk
    \/ Visit
    \/ FinishWalk
    \/ VisitFolderFails

SpecFolderFault == InitFolderFault /\ [][NextFolderFault]_vars

\* the last step visited an entry whose folder lookup failed
FolderFailureVisit == Visited /\ obs.last.outcome = "folderError"

\* the entries WalkDir visits next after a callback that returned nil for
\* path: the entries of a directory that lists, the directory once more with
\* the error when it does not list, the siblings left otherwise
NextEntries(path) ==
    IF KindOf(path) = "dir" /\ fs[path].mode = "nolist"
    THEN <<Item(path, "permission denied")>>
    ELSE IF KindOf(path) = "dir" /\ fs[path].mode = "nolistio"
    THEN <<Item(path, "input/output error")>>
    ELSE IF KindOf(path) = "dir" /\ Children(path) # <<>>
    THEN Children(path)
    ELSE IF path = cfg.root THEN <<>>
    ELSE SiblingsAfter(path)

\* C25: when the folder of an entry cannot be resolved because a statement on
\* the store fails, the entry gets an error record without hash and without
\* exclusion pattern, it is not classified (no metadata is read), and the
\* walk goes on with the next entry.
C25_FolderFailureRecorded ==
    FolderFailureVisit =>
        /\ VisitedPath \in DOMAIN files
        /\ files[VisitedPath].error # Null
        /\ files[VisitedPath].hash = Null
        /\ files[VisitedPath].pattern = Null
        /\ files[VisitedPath].mtime = Null
        /\ ~obs.last.hashed
        /\ phase \in {"walking", "idle"}
        /\ phase = "walking" /\ NextEntries(VisitedPath) # <<>> =>
              todo # <<>> /\ Head(todo) = NextEntries(VisitedPath)

\* the folder lookup failed for an entry that a pattern of the list matches
\* and that is not the last of its directory
C25_Witness ==
    /\ FolderFailureVisit
    /\ isExcluded(VisitedPath, cfg.patterns).match
    /\ NextEntries(VisitedPath) # <<>>

-----------------------------------------------------------------------------
(* patterns.go: readExcludePatterns *)

\* the longest exclusion file, in characters
MaxFileLen == 6

Newline == "\n"
Space == " "
Hash == "#"

\* the characters of an exclusion file
FileAlphabet == {"a", Hash, Space, Newline}

\* the exclusion files
ExcludeFiles == StringsUpTo(FileAlphabet, MaxFileLen)

\* what the file system does: the file is read whole, os.Open fails, or a
\* read fails after the first `at` characters have been delivered
ReadOutcomes ==
    {[kind |-> "ok", at |-> 0], [kind |-> "noopen", at |-> 0]}
        \cup [kind : {"readerr"}, at : 0..MaxFileLen]

\* bufio.Scanner with ScanLines over data: a token for every line that ends
\* in a newline and one for a last line that does not; `line` is the part of
\* the current line already scanned
RECURSIVE ScanLines(_, _, _)
ScanLines(data, k, line) ==
    IF k > Len(data) THEN (IF line = Empty THEN <<>> ELSE <<line>>)
    ELSE IF data[k] = Newline THEN <<line>> \o ScanLines(data, k + 1, Empty)
    ELSE ScanLines(data, k + 1, Append(line, data[k]))

\* strings.TrimSpace
RECURSIVE TrimLeft(_)
TrimLeft(s) == IF s # Empty /\ Head(s) = Space THEN TrimLeft(Tail(s)) ELSE s

RECURSIVE TrimRight(_)
TrimRight(s) ==
    IF s # Empty /\ s[Len(s)] = Space THEN TrimRight(SubSeq(s, 1, Len(s) - 1)) ELSE s

TrimSpace(s) == TrimRight(TrimLeft(s))

\* strings.HasPrefix(line, "#")
HasHashPrefix(line) == line # Empty /\ Head(line) = Hash

\* the loop over scanner.Scan(): the trimmed lines that are no comment and
\* are not empty, appended in the order scanned
RECURSIVE AppendPatterns(_, _)
AppendPatterns(patterns, tokens) ==
    IF tokens = <<>> THEN patterns
    ELSE LET line == TrimSpace(Head(tokens)) IN
         IF HasHashPrefix(line) \/ line = Empty
         THEN AppendPatterns(patterns, Tail(tokens))
         ELSE AppendPatterns(Append(patterns, line), Tail(tokens))

\* a buggy reader: a read error returns the patterns read before it
readExcludePatternsPrefix(content, outcome) ==
    CASE outcome.kind = "noopen" -> <<>>
      [] outcome.kind = "readerr" ->
           AppendPatterns(<<>>, ScanLines(SubSeq(content, 1, Min({outcome.at, Len(content)})),
                                          1, Empty))
      [] OTHER -> AppendPatterns(<<>>, ScanLines(content, 1, Empty))

\* a buggy reader: the lines are not trimmed before they are tested
readExcludePatternsUntrimmed(content, outcome) ==
    CASE outcome.kind \in {"noopen", "readerr"} -> <<>>
      [] OTHER -> SelectSeq(ScanLines(content, 1, Empty),
                            LAMBDA l : ~HasHashPrefix(l) /\ l # Empty)

\* readExcludePatterns(filename): nil when os.Open fails; nil when the scanner
\* ends with an error, whatever was appended before; the patterns otherwise
readExcludePatterns(content, outcome) ==
    CASE outcome.kind = "noopen" -> <<>>
      [] outcome.kind = "readerr" -> <<>>
      [] OTHER -> AppendPatterns(<<>>, ScanLines(content, 1, Empty))

\* one call of readExcludePatterns
CallReadExcludePatterns ==
    /\ call.fn = "none"
    /\ \E content \in ExcludeFiles, outcome \in ReadOutcomes :
          call' = [fn |-> "readExcludePatterns", content |-> content, outcome |-> outcome,
                   result |-> readExcludePatterns(content, outcome)]
    /\ UNCHANGED <<fs, cfg, files, folders, stats, phase, todo, walkNo, obs, visitedSymlinks>>

InitPatternFile ==
    /\ call = [fn |-> "none", content |-> Empty, outcome |-> [kind |-> "ok", at |-> 0],
               result |-> <<>>]
    /\ fs = [p \in {} |-> Null]
    /\ cfg = [patterns |-> <<>>, retryErrors |-> FALSE]
    /\ files = NoRows
    /\ folders = <<>>
    /\ stats = NewProcessStats
    /\ phase = "idle"
    /\ todo = <<>>
    /\ walkNo = 0
    /\ obs = Null
    /\ visitedSymlinks = {}

NextPatternFile == CallReadExcludePatterns

SpecPatternFile == InitPatternFile /\ [][NextPatternFile]_vars

\* the positions of the newlines of the file, and its end when the last line
\* has no newline
LineEnds(content) ==
    {k \in 1..Len(content) : content[k] = Newline}
        \cup (IF content # Empty /\ content[Len(content)] # Newline
              THEN {Len(content) + 1} ELSE {})

\* the line that ends at position e: the characters after the newline before it
LineEndingAt(content, e) ==
    LET before == {k \in 1..(e - 1) : content[k] = Newline}
        start == IF before = {} THEN 1 ELSE Max(before) + 1 IN
    SubSeq(content, start, e - 1)

\* a string has no space at either end
Trimmed(s) == s = Empty \/ (s[1] # Space /\ s[Len(s)] # Space)

\* t is s without the spaces around it
IsTrimOf(t, s) ==
    /\ Trimmed(t)
    /\ \E i \in 0..Len(s) : \E j \in 0..(Len(s) - i) :
          /\ t = SubSeq(s, i + 1, Len(s) - j)
          /\ \A k \in 1..i : s[k] = Space
          /\ \A k \in (Len(s) - j + 1)..Len(s) : s[k] = Space

\* the ends of the lines that carry a pattern: not blank, and '#' is not the
\* first character after the leading spaces
PatternLineEnds(content) ==
    {e \in LineEnds(content) :
        LET line == LineEndingAt(content, e) IN
        /\ \E k \in 1..Len(line) : line[k] # Space
        /\ line[Min({k \in 1..Len(line) : line[k] # Space})] # Hash}

\* the k-th smallest element of a set of numbers
RECURSIVE Nth(_, _)
Nth(S, k) == IF k = 1 THEN Min(S) ELSE Nth(S \ {Min(S)}, k - 1)

ReadCall == call.fn = "readExcludePatterns"

\* C26: readExcludePatterns returns the lines of the file that are not blank
\* and do not begin with '#' once the spaces around them are trimmed, trimmed
\* and in file order; when the file cannot be opened or a read fails part-way
\* it returns no pattern at all, not the patterns read so far.
C26_ReadExcludePatterns ==
    ReadCall =>
        IF call.outcome.kind = "ok"
        THEN LET ends == PatternLineEnds(call.content) IN
             /\ Len(call.result) = Cardinality(ends)
             /\ \A i \in 1..Len(call.result) :
                   IsTrimOf(call.result[i], LineEndingAt(call.content, Nth(ends, i)))
        ELSE call.result = <<>>

\* a file of three lines, one of them dropped, has been read: two different
\* patterns are returned, one from a line with spaces around the pattern
C26_Witness ==
    /\ ReadCall
    /\ call.outcome.kind = "ok"
    /\ Len(call.result) = 2
    /\ call.result[1] # call.result[2]
    /\ Cardinality(LineEnds(call.content)) = 3
    /\ \E e \in PatternLineEnds(call.content) : ~Trimmed(LineEndingAt(call.content, e))

-----------------------------------------------------------------------------
(* The files table: the state of a record *)

\* how many of error, exclusion pattern and hash a record has
StatesOf(row) ==
    Cardinality({k \in {"error", "pattern", "hash"} :
                    \/ k = "error" /\ row.error # Null
                    \/ k = "pattern" /\ row.pattern # Null
                    \/ k = "hash" /\ row.hash # Null})

\* C27: after any sequence of walks every stored record has at most one of
\* error, exclusion pattern and hash: none has an error and a hash, a pattern
\* and a hash, or an error and a pattern.
C27_OneRecordState ==
    \A p \in DOMAIN files : StatesOf(files[p]) <= 1

\* the store holds a record with an error, one with a pattern and one with a
\* hash, and the record just written has an error where it had a hash
C27_Witness ==
    /\ \E p \in DOMAIN files : files[p].error # Null
    /\ \E p \in DOMAIN files : files[p].pattern # Null
    /\ \E p \in DOMAIN files : files[p].hash # Null
    /\ Visited
    /\ obs.last.before # Null
    /\ obs.last.before[1].hash # Null
    /\ files[VisitedPath].error # Null

-----------------------------------------------------------------------------
(* The files table: directories and symlinks *)

\* C28: directories and symlinks never carry a hash: every stored record of
\* an entry that is a directory or a symlink has a null hash (the trees of
\* this specification do not change, so an entry is what it was when its
\* record was written).
C28_NoHashForDirOrSymlink ==
    \A p \in DOMAIN files :
        LstatKind(p) \in {"dir", "symlink"} => files[p].hash = Null

-----------------------------------------------------------------------------
(* file_info.go: the files table as a set of rows with a primary key *)

\* the FileInfo values handed to the writes: for two paths, every choice of
\* hash, exclusion pattern and error
WriteInfos ==
    {[NewFileInfo(p) EXCEPT !.mtime = Valid(0), !.hash = h, !.pattern = x, !.error = e] :
        p \in {FileA, FileF}, h \in {Null, Valid(Sha256(1))},
        x \in {Null, Valid(<<"a">>)}, e \in {Null, Valid("opening file: permission denied")}}

\* the messages handed to WriteError
WriteMessages == {Sprintf("FIFO", "nil"), Sprintf("hashing file", "input/output error")}

\* a row of the table: the primary key and the other columns
StoredRow(f) == [path |-> f.path[1], row |-> RowOf(f)]

\* a buggy statement: INSERT OR IGNORE, a row with the same key is kept
InsertOrIgnore(rows, f) ==
    IF \E r \in rows : r.path = f.path[1] THEN rows ELSE rows \cup {StoredRow(f)}

\* INSERT OR REPLACE INTO files(...) with path TEXT PRIMARY KEY: the rows
\* that conflict on the key are deleted, then the new row is inserted
InsertOrReplace(rows, f) ==
    {r \in rows : r.path # f.path[1]} \cup {StoredRow(f)}

NoWrite == [fn |-> "none", f |-> NewFileInfo(FileA), before |-> {}]

\* f.WriteToDatabase(db)
CallWriteToDatabase ==
    /\ \E f \in WriteInfos :
          /\ files' = InsertOrReplace(files, f)
          /\ call' = [fn |-> "WriteToDatabase", f |-> f, before |-> files]
    /\ UNCHANGED <<fs, cfg, folders, stats, phase, todo, walkNo, obs, visitedSymlinks>>

\* f.WriteError(msg, err, db): the error is set in f, then f is written
CallWriteError ==
    /\ \E f \in WriteInfos, msg \in WriteMessages :
          LET g == [f EXCEPT !.error = Valid(msg)] IN
          /\ files' = InsertOrReplace(files, g)
          /\ call' = [fn |-> "WriteError", f |-> g, before |-> files]
    /\ UNCHANGED <<fs, cfg, folders, stats, phase, todo, walkNo, obs, visitedSymlinks>>

InitWrites ==
    /\ call = NoWrite
    /\ fs = [p \in Paths |-> [mtime |-> 0, content |-> 1, mode |-> "ok"]]
    /\ cfg = [patterns |-> <<>>, retryErrors |-> FALSE]
    /\ files = {}
    /\ folders = <<>>
    /\ stats = NewProcessStats
    /\ phase = "idle"
    /\ todo = <<>>
    /\ walkNo = 0
    /\ obs = Null
    /\ visitedSymlinks = {}

NextWrites ==
    \/ CallWriteToDatabase
    \/ CallWriteError

SpecWrites == InitWrites /\ [][NextWrites]_vars

\* the rows as the walker sees them: the record of each path
RecordOf(rows) ==
    [p \in {r.path : r \in rows} |-> (CHOOSE r \in rows : r.path = p).row]

WriteCall == call.fn # "none"

\* C29: every write fully supersedes the existing row: the table holds at
\* most one record per path at all times, and after a write for a path every
\* field of the stored record is the value the write supplied (an error
\* record written over a hashed record has a null hash, an exclusion record
\* written over a hashed record has none either); the records of the other
\* paths stay as they were.
C29_WriteSupersedes ==
    /\ \A r1, r2 \in files : r1.path = r2.path => r1 = r2
    /\ WriteCall =>
          LET path == call.f.path[1] IN
          /\ \A r \in files : r.path = path => r.row = RowOf(call.f)
          /\ \E r \in files : r.path = path
          /\ {r \in files : r.path # path} = {r \in call.before : r.path # path}
          /\ RecordOf(files) = WriteToDatabase(RecordOf(call.before), call.f)

\* an error record, or an exclusion record, has been written over a record
\* that had a hash
C29_Witness ==
    /\ WriteCall
    /\ call.f.hash = Null
    /\ call.f.error # Null \/ call.f.pattern # Null
    /\ \E r \in call.before : r.path = call.f.path[1] /\ r.row.hash # Null
    /\ \E r \in files : r.path # call.f.path[1]

-----------------------------------------------------------------------------
(* The walker: directories and symlinks *)

\* the last step visited a directory that no pattern matches, without an
\* error from WalkDir and without a skip by the error memo
DirectoryVisit ==
    /\ Visited
    /\ KindOf(VisitedPath) = "dir"
    /\ obs.last.err = "nil"
    /\ ~Remembered
    /\ ~isExcluded(VisitedPath, cfg.patterns).match

\* the last step visited a symlink, without an error from WalkDir and
\* without a skip by the error memo
SymlinkVisit ==
    /\ Visited
    /\ KindOf(VisitedPath) = "symlink"
    /\ obs.last.err = "nil"
    /\ ~Remembered

\* the directories of the walk that were recorded as directories and that
\* listed at the time of the walk
ListedDirectories ==
    {d \in DOMAIN obs.outcome :
        /\ KindOf(d) = "dir"
        /\ obs.outcome[d] = "dirOrSymlink"
        /\ obs.fsStart[1][d].mode = "ok"}

\* C30: a directory that no pattern matches and that is visited without
\* error gets a directory record with a null hash written in that visit, on
\* every walk (the unchanged-time shortcut does not apply to it), and its
\* children are visited next, all of them by the end of the walk; a symlink
\* gets a record with its link target and its metadata and a null hash, and
\* is never opened.
C30_DirectoriesAndSymlinks ==
    /\ DirectoryVisit =>
          /\ obs.last.outcome = "dirOrSymlink"
          /\ files[VisitedPath].dir
          /\ files[VisitedPath].hash = Null
          /\ files[VisitedPath].error = Null
          /\ files[VisitedPath].mtime = CurrentModTime(VisitedPath)
          /\ ~obs.last.hashed
          /\ fs[VisitedPath].mode = "ok" /\ phase = "walking" =>
                todo # <<>> /\ Head(todo) = Children(VisitedPath)
    /\ phase = "idle" /\ walkNo >= 1 =>
          \A d \in ListedDirectories :
              \A k \in 1..Len(Children(d)) : Children(d)[k].path \in obs.visited
    /\ SymlinkVisit =>
          /\ files[VisitedPath].symlink = Valid(LinkTarget)
          /\ files[VisitedPath].mtime = CurrentModTime(VisitedPath)
          /\ files[VisitedPath].size = SizeOf(VisitedPath)
          /\ files[VisitedPath].hash = Null
          /\ files[VisitedPath].error = Null
          /\ ~obs.last.hashed
          /\ VisitedPath \notin obs.hashed

\* on a second walk a directory below the root, unchanged since the first
\* walk, has been recorded again and its children wait to be visited, and the
\* symlink was recorded by the first walk
C30_Witness ==
    /\ DirectoryVisit
    /\ walkNo = 2
    /\ VisitedPath # cfg.root
    /\ RowBefore # Null
    /\ RowBefore[1].mtime = CurrentModTime(VisitedPath)
    /\ todo # <<>>
    /\ Head(todo) = Children(VisitedPath)
    /\ Children(VisitedPath) # <<>>
    /\ LinkS \in DOMAIN files
    /\ files[LinkS].symlink = Valid(LinkTarget)

-----------------------------------------------------------------------------
(* The records and the folders they belong to *)

\* FileInfo.FolderId is an int64, which WriteToDatabase binds as it is: the
\* stored folder_id is a number, 0 when nothing was assigned, never NULL
FolderIdIsNull(row) == FALSE

\* the folder row a record refers to exists and holds the record's parent
RefersToParent(path, row) ==
    /\ row.folder \in 1..Len(folders)
    /\ folders[row.folder].path = Dir(path)

\* C31: every stored file record, the error records of walk errors, metadata
\* failures and folder failures included, has a folder id that is null or
\* the id of an existing folder row, and that row's path is the parent
\* directory of the record's path.
C31_FolderReference ==
    \A path \in DOMAIN files :
        FolderIdIsNull(files[path]) \/ RefersToParent(path, files[path])

\* the records that are not written before the folder is known do refer to
\* their parent
C31_ResolvedRecordsRefer ==
    \A path \in DOMAIN files :
        (files[path].error = Null \/ files[path].folder # 0)
            => RefersToParent(path, files[path])

-----------------------------------------------------------------------------
(* The counters over a whole run *)

\* the counters after the Update calls that have completed: obs.states holds
\* what Update, applied in sequence, makes of the counters after call 1, 2, ...
AfterCompletedCalls(done, states) == CHOOSE s \in states : s.files = done

\* C32: the file count and the byte count never decrease, and whenever n calls
\* of Update have completed the file count is n, the byte count the sum of
\* the n sizes and the last path the path of the n-th call, whatever the
\* reporter reads in between.
C32_CountersLoseNothing ==
    [][/\ stats'.files >= stats.files
       /\ stats'.bytes >= stats.bytes
       /\ call'.walker.pc = "idle" =>
             /\ stats'.files = call'.walker.done
             /\ stats' = AfterCompletedCalls(call'.walker.done, obs'.states)]_vars

\* three calls have completed, the last one between two loads of a Print
C32_Witness ==
    /\ call.walker.pc = "idle"
    /\ call.walker.done = MaxUpdates
    /\ call.reporter.pc = "loadedBytes"
    /\ call.reporter.files < stats.files
    /\ stats.bytes = 5
    /\ stats.last = FileF

-----------------------------------------------------------------------------
(* The walker: runs with different exclusion files *)

\* the next run of the crawler is started with another exclusion file
ChangePatterns ==
    /\ BetweenWalks
    /\ \E patterns \in WalkPatternLists :
          /\ patterns # cfg.patterns
          /\ cfg' = [cfg EXCEPT !.patterns = patterns]
    /\ UNCHANGED <<call, fs, files, folders, stats, phase, todo, walkNo, obs, visitedSymlinks>>

\* a tree without failures, any exclusion list, the error memo on or off
InitPatternChange ==
    /\ call = NoCall
    /\ fs = [p \in Paths |-> [mtime |-> 0, content |-> 1, mode |-> "ok"]]
    /\ cfg \in Configs
    /\ files = NoRows
    /\ folders = <<>>
    /\ stats = NewProcessStats
    /\ phase = "idle"
    /\ todo = <<>>
    /\ walkNo = 0
    /\ obs = NewObs(Null, Null, NoRows)
    /\ visitedSymlinks = {}

NextPatternChange ==
    \/ StartWalk
    \/ Visit
    \/ FinishWalk
    \/ ChangePatterns
    \/ Touch

SpecPatternChange == InitPatternChange /\ [][NextPatternChange]_vars

\* the last visit was of a regular file that an earlier walk recorded as
\* excluded, that matches no pattern of this walk and that has the
\* modification time of its record
FormerlyExcludedVisit ==
    /\ phase = "walking"
    /\ PlainFileVisit
    /\ obs.last.err = "nil"
    /\ RowBefore # Null
    /\ RowBefore[1].pattern # Null
    /\ RowBefore[1].mtime = CurrentModTime(VisitedPath)

\* C33: a regular file that one walk recorded as excluded and that matches no
\* pattern on a later walk, the file and its modification time being the
\* same, is hashed by that later walk, and its exclusion record is replaced by
\* a record with a hash and a null exclusion pattern.
C33_ExclusionRecordReplaced ==
    FormerlyExcludedVisit =>
        /\ obs.last.hashed
        /\ files[VisitedPath].hash # Null
        /\ files[VisitedPath].pattern = Null

\* once the file's modification time has moved to another second, the later
\* walk does replace the exclusion record
C33_ReplacedAfterTouch ==
    /\ phase = "walking"
    /\ PlainFileVisit
    /\ obs.last.err = "nil"
    /\ RowBefore # Null
    /\ RowBefore[1].pattern # Null
    /\ RowBefore[1].mtime # CurrentModTime(VisitedPath)
    => /\ obs.last.hashed
       /\ files[VisitedPath].hash = Valid(Sha256(fs[VisitedPath].content))
       /\ files[VisitedPath].pattern = Null

-----------------------------------------------------------------------------
(* The -follow variant: an excluded entry and the entries listed after it *)

\* the exclusion lists of these runs: the first file, the link, the last file
TreeVPatternLists == {<<>>, << <<"a">> >>, << <<"k">> >>, << <<"z">> >>}

TreeVConfigs ==
    [patterns : TreeVPatternLists, retryErrors : BOOLEAN, followSymlinks : BOOLEAN,
     roots : {<<TreeV>>, <<TreeV, TreeV>>}]

\* the link /v/k names the directory /v or the regular file /v/z
TreeVFs ==
    {f \in [TreeVPaths -> [mtime : {0}, content : {1}, mode : {"ok"},
                           target : {TreeV, FileVZ, Empty}]] :
        \A p \in TreeVPaths : (f[p].target # Empty) = (LstatKind(p) = "symlink")}

InitTreeV ==
    /\ call = NoCall
    /\ fs \in TreeVFs
    /\ cfg \in TreeVConfigs
    /\ files = NoRows
    /\ folders = <<>>
    /\ stats = NewProcessStats
    /\ phase = "idle"
    /\ todo = <<>>
    /\ walkNo = 0
    /\ obs = NoFollowObs
    /\ visitedSymlinks = {}

NextTreeV ==
    \/ StartFollowWalk
    \/ FollowVisit
    \/ FinishFollowWalk

SpecTreeV == InitTreeV /\ [][NextTreeV]_vars

\* the last call of walkFn ended in the exclusion branch, for an entry that
\* is no directory of the walked tree
ExcludedNonDirectory ==
    /\ FollowOutcome = "excluded"
    /\ LstatKind(obs.last.path) # "dir"

\* C34: in the -follow variant the exclusion of an entry that is no directory
\* of the walked tree (a regular file, or a link whose target is a directory)
\* touches that entry alone: the walk goes on with the entries listed after
\* it in its directory.
C34_ExcludedEntryAlone == ExcludedNonDirectory => NotTraversed

\* the exclusion of a regular file, or of a link whose target is no
\* directory, does leave the rest of the listing to be visited
C34_ExcludedFileAlone ==
    ExcludedNonDirectory /\ ~getFileInfo(obs.last.path).isDir => NotTraversed

-----------------------------------------------------------------------------
(* The -follow variant: the walks end *)

\* main's loop over the root arguments has ended
AllRootsWalked == phase = "idle" /\ walkNo = Len(cfg.roots)

\* the walker has a step to take exactly as long as main's loop has not ended
WalkerCanStep == (ENABLED <<NextFollow>>_vars) <=> ~AllRootsWalked

\* the walker goroutine is never held up: as long as it has an entry to visit
\* or a root argument to start it takes its next step. This is
\* WF_vars(NextFollow), with ENABLED <<NextFollow>>_vars written as WalkerCanStep
\* gives it.
WalkerRuns == ([]<>AllRootsWalked) \/ ([]<><<NextFollow>>_vars)

SpecFollowFair == SpecFollow /\ WalkerRuns

\* the texts of the symbolic links of the trees
SymlinkTargets ==
    {fs[p].target : p \in {q \in DOMAIN fs : LstatKind(q) = "symlink"}}

\* C35: with -follow (and without), the walk of a finite tree ends even when
\* links form cycles - a link to an ancestor, links that name each other's
\* trees, links met under several roots - and the number of walks started for
\* link targets is at most the number of distinct link targets.
C35_FollowTerminates ==
    /\ [](Len(obs.followed) <= Cardinality(SymlinkTargets))
    /\ <>AllRootsWalked

\* two links that name each other's trees: both targets were walked once, and
\* the run has ended
C35_Witness ==
    /\ AllRootsWalked
    /\ cfg.followSymlinks
    /\ fs[LinkTL].target = TreeU
    /\ fs[LinkUM].target = TreeT
    /\ Len(obs.followed) = 2
    /\ FollowOutcome = "loop"

-----------------------------------------------------------------------------
(* crawler.go, the -follow variant: its counters and its reporter goroutine *)

\* stats := &ProcessStats{}: the atomic.Value of the last path holds nothing
ZeroProcessStats == [files |-> 0, bytes |-> 0, last |-> Null]

\* atomic.AddInt64(&stats.FilesProcessed, 1) in walkFn
WalkFnAddFiles ==
    /\ phase = "walking"
    /\ call.walker.pc = "idle"
    /\ call.walker.done < MaxUpdates
    /\ \E path \in UpdatePaths, size \in UpdateSizes :
          call' = [call EXCEPT !.walker = [pc |-> "addedFiles", path |-> path,
                                           size |-> size, done |-> @.done]]
    /\ stats' = [stats EXCEPT !.files = @ + 1]
    /\ UNCHANGED <<fs, cfg, files, folders, phase, todo, walkNo, obs, visitedSymlinks>>

\* atomic.AddInt64(&stats.BytesProcessed, fileSize) in walkFn
WalkFnAddBytes ==
    /\ phase = "walking"
    /\ call.walker.pc = "addedFiles"
    /\ stats' = [stats EXCEPT !.bytes = @ + call.walker.size]
    /\ call' = [call EXCEPT !.walker.pc = "addedBytes"]
    /\ UNCHANGED <<fs, cfg, files, folders, phase, todo, walkNo, obs, visitedSymlinks>>

\* stats.SetLastProcessedFile(path): lastProcessedFile.Store(fileName)
SetLastProcessedFile ==
    /\ phase = "walking"
    /\ call.walker.pc = "addedBytes"
    /\ stats' = [stats EXCEPT !.last = Valid(call.walker.path)]
    /\ call' = [call EXCEPT !.walker.pc = "idle", !.walker.done = @ + 1]
    /\ UNCHANGED <<fs, cfg, files, folders, phase, todo, walkNo, obs, visitedSymlinks>>

\* the reporter's tick: files := atomic.LoadInt64(&stats.FilesProcessed)
TickLoadFiles ==
    /\ phase = "walking"
    /\ call.reporter.pc = "idle"
    /\ call' = [call EXCEPT !.reporter = [pc |-> "loadedFiles", files |-> stats.files,
                                          bytes |-> 0]]
    /\ obs' = [obs EXCEPT !.read = Null]
    /\ UNCHANGED <<fs, cfg, files, folders, stats, phase, todo, walkNo, visitedSymlinks>>

\* bytes := atomic.LoadInt64(&stats.BytesProcessed)
TickLoadBytes ==
    /\ phase = "walking"
    /\ call.reporter.pc = "loadedFiles"
    /\ call' = [call EXCEPT !.reporter.pc = "loadedBytes", !.reporter.bytes = stats.bytes]
    /\ UNCHANGED <<fs, cfg, files, folders, stats, phase, todo, walkNo, obs, visitedSymlinks>>

\* stats.GetLastProcessedFile(): lastProcessedFile.Load().(string). Load
\* returns nil when nothing was stored, and the type assertion of nil panics:
\* the process ends
GetLastProcessedFile ==
    /\ phase = "walking"
    /\ call.reporter.pc = "loadedBytes"
    /\ IF stats.last = Null
       THEN /\ phase' = "panicked"
            /\ UNCHANGED <<call, obs>>
       ELSE /\ obs' = [obs EXCEPT !.read = Valid([files |-> call.reporter.files,
                                                  bytes |-> call.reporter.bytes,
                                                  last |-> stats.last[1]])]
            /\ call' = [call EXCEPT !.reporter = NoPrint]
            /\ UNCHANGED phase
    /\ UNCHANGED <<fs, cfg, files, folders, stats, todo, walkNo, visitedSymlinks>>

\* main of the -follow variant: stats := &ProcessStats{}, then the reporter
\* goroutine and the walker
InitTicks ==
    /\ call = [walker |-> NoUpdate, reporter |-> NoPrint]
    /\ fs = [p \in {} |-> Null]
    /\ cfg = [patterns |-> <<>>, retryErrors |-> FALSE]
    /\ files = NoRows
    /\ folders = <<>>
    /\ stats = ZeroProcessStats
    /\ phase = "walking"
    /\ todo = <<>>
    /\ walkNo = 0
    /\ obs = [states |-> {}, read |-> Null]
    /\ visitedSymlinks = {}

NextTicks ==
    \/ WalkFnAddFiles
    \/ WalkFnAddBytes
    \/ SetLastProcessedFile
    \/ TickLoadFiles
    \/ TickLoadBytes
    \/ GetLastProcessedFile

SpecTicks == InitTicks /\ [][NextTicks]_vars

\* the walker has not begun to count its first file
NothingProcessed == call.walker.pc = "idle" /\ call.walker.done = 0

\* C36: a read of the reporter that happens before the walker has processed
\* any file succeeds with file count 0, byte count 0 and an empty last path,
\* and the read of the last-path slot never fails for want of a stored value.
C36_ReadNeverFails ==
    /\ phase # "panicked"
    /\ obs.read # Null /\ NothingProcessed =>
          obs.read[1] = [files |-> 0, bytes |-> 0, last |-> Empty]

\* with the counters NewProcessStats makes, a read before the first file did
\* complete
C36_ReadBeforeFirstFile ==
    /\ obs.read # Null
    /\ NothingProcessed

-----------------------------------------------------------------------------
(* The walker over a tree that holds its own database and log file *)

\* main: the patterns of the exclusion file, then the absolute paths of the
\* database and of the log file
excludePatterns(userPatterns, dbFile, logFileName) ==
    userPatterns \o <<dbFile, logFileName>>

\* the patterns of the exclusion file of these runs
OwnFilesUserPatterns == {<<>>, << <<"i">> >>, << <<"?">> >>, << <<"x">>, <<Slash, "w", Slash, "l">> >>}

\* -db names /w/i or /w/\i, -log names /w/l
OwnFilesConfigs ==
    {[patterns |-> excludePatterns(user, dbFile, FileWL), retryErrors |-> retry,
      root |-> TreeW, extraLogging |-> FALSE, dbFile |-> dbFile, logFileName |-> FileWL] :
        user \in OwnFilesUserPatterns, dbFile \in {FileWI, FileWBackslashI},
        retry \in BOOLEAN}

InitOwnFiles ==
    /\ call = NoCall
    /\ fs = [p \in TreeWPaths |-> [mtime |-> 0, content |-> 1, mode |-> "ok"]]
    /\ cfg \in OwnFilesConfigs
    /\ files = NoRows
    /\ folders = <<>>
    /\ stats = NewProcessStats
    /\ phase = "idle"
    /\ todo = <<>>
    /\ walkNo = 0
    /\ obs = NewObs(Null, Null, NoRows)
    /\ visitedSymlinks = {}

NextOwnFiles ==
    \/ StartWalk
    \/ Visit
    \/ FinishWalk

SpecOwnFiles == InitOwnFiles /\ [][NextOwnFiles]_vars

\* the visit of the entry in this walk ended in the exclusion branch: nothing
\* was hashed, the record holds a pattern and no hash
EndedExcluded(path) ==
    /\ obs.outcome[path] = "excluded"
    /\ path \notin obs.hashed
    /\ files[path].pattern # Null
    /\ files[path].hash = Null

\* C37: the database file and the log file are never hashed: their absolute
\* paths are at the end of the exclusion list, so the visit of either under
\* a walked root ends in the exclusion branch, with a record that has an
\* exclusion pattern and no hash, whatever patterns of the user come first.
C37_OwnFilesExcluded ==
    \A path \in {cfg.dbFile, cfg.logFileName} :
        path \in obs.visited => EndedExcluded(path)

\* a database or log file whose path holds no character that path.Match
\* reads as a glob operator does end in the exclusion branch
C37_PlainPathsExcluded ==
    \A path \in {cfg.dbFile, cfg.logFileName} :
        path \in obs.visited /\ ~Contains(path, "\\") => EndedExcluded(path)

-----------------------------------------------------------------------------
(* file_info.go: getFolderID, one statement at a time *)

\* no call of getFolderID is running; ret is what the last call, or the last
\* recursive call, returned: an id, an error, or nothing yet
NoFolderSteps ==
    [path |-> Empty, stack |-> <<>>, ret |-> Null, deepest |-> 0, foldersBefore |-> <<>>]

\* return 0, err
FolderError == <<0>>

\* a caller calls getFolderID(db, path) for an absolute directory path
BeginGetFolderID ==
    /\ call.stack = <<>>
    /\ \E path \in FolderPaths :
          call' = [path |-> path, stack |-> <<path>>, ret |-> Null, deepest |-> 1,
                   foldersBefore |-> folders]
    /\ UNCHANGED <<fs, cfg, files, folders, stats, phase, todo, walkNo, obs, visitedSymlinks>>

\* a buggy recursion: the parent is looked up under the path itself
QueryFolderSamePath ==
    /\ call.stack # <<>>
    /\ call.ret = Null
    /\ LET path == Head(call.stack)
           id == FolderQuery(folders, path) IN
       IF id # 0
       THEN /\ call' = [call EXCEPT !.stack = Tail(@), !.ret = Valid(id)]
            /\ UNCHANGED folders
       ELSE /\ call' = [call EXCEPT !.stack = <<path>> \o @,
                                    !.deepest = Max({@, Len(call.stack) + 1})]
            /\ UNCHANGED folders
    /\ UNCHANGED <<fs, cfg, files, stats, phase, todo, walkNo, obs, visitedSymlinks>>

\* the innermost call runs its SELECT: it returns the id it finds; for "/" it
\* inserts the row and returns its id; otherwise it calls itself for
\* filepath.Dir(path)
QueryFolder ==
    /\ call.stack # <<>>
    /\ call.ret = Null
    /\ LET path == Head(call.stack)
           id == FolderQuery(folders, path) IN
       IF id # 0
       THEN /\ call' = [call EXCEPT !.stack = Tail(@), !.ret = Valid(id)]
            /\ UNCHANGED folders
       ELSE IF path = <<Slash>>
       THEN /\ folders' = Append(folders, [path |-> path, parent |-> Null])
            /\ call' = [call EXCEPT !.stack = Tail(@), !.ret = Valid(Len(folders) + 1)]
       ELSE /\ call' = [call EXCEPT !.stack = <<Dir(path)>> \o @,
                                    !.deepest = Max({@, Len(call.stack) + 1})]
            /\ UNCHANGED folders
    /\ UNCHANGED <<fs, cfg, files, stats, phase, todo, walkNo, obs, visitedSymlinks>>

\* the recursive call has returned parentId: the caller inserts its own row
\* and returns the new id
InsertFolder ==
    /\ call.stack # <<>>
    /\ call.ret \notin {Null, FolderError}
    /\ folders' = Append(folders, folderRow(Head(call.stack), call.ret[1]))
    /\ call' = [call EXCEPT !.stack = Tail(@), !.ret = Valid(Len(folders) + 1)]
    /\ UNCHANGED <<fs, cfg, files, stats, phase, todo, walkNo, obs, visitedSymlinks>>

\* the statement of the innermost call fails: the error is returned
StatementFails ==
    /\ call.stack # <<>>
    /\ call.ret # FolderError
    /\ call' = [call EXCEPT !.stack = Tail(@), !.ret = FolderError]
    /\ UNCHANGED <<fs, cfg, files, folders, stats, phase, todo, walkNo, obs, visitedSymlinks>>

\* a call that got an error from its recursive call returns it
ReturnError ==
    /\ call.stack # <<>>
    /\ call.ret = FolderError
    /\ call' = [call EXCEPT !.stack = Tail(@)]
    /\ UNCHANGED <<fs, cfg, files, folders, stats, phase, todo, walkNo, obs, visitedSymlinks>>

InitFolderSteps ==
    /\ call = NoFolderSteps
    /\ fs = [p \in {} |-> Null]
    /\ cfg = [patterns |-> <<>>, retryErrors |-> FALSE]
    /\ files = NoRows
    /\ folders = <<>>
    /\ stats = NewProcessStats
    /\ phase = "idle"
    /\ todo = <<>>
    /\ walkNo = 0
    /\ obs = Null
    /\ visitedSymlinks = {}

\* what a running call does next
FolderStep ==
    \/ QueryFolder
    \/ InsertFolder
    \/ StatementFails
    \/ ReturnError

NextFolderSteps ==
    \/ BeginGetFolderID
    \/ FolderStep

\* a call that has begun runs on: the database answers every statement
SpecFolderSteps == InitFolderSteps /\ [][NextFolderSteps]_vars /\ WF_vars(FolderStep)

\* the named components of an absolute path: none for "/"
Components(path) == IF path = <<Slash>> THEN 0 ELSE Len(pathComponents(path))

\* the path and the directories above it, "/" included
RECURSIVE UpTo(_)
UpTo(path) == IF path = <<Slash>> THEN {path} ELSE {path} \cup UpTo(Dir(path))

Stored(table) == {table[k].path : k \in 1..Len(table)}

\* C38: getFolderID ends for every absolute directory path: each recursive
\* call is for a strictly shorter path, up to "/" or to a path that is
\* stored; the calls nested below the first one are at most as many as the
\* path has components, and at most one row is inserted for each of the path
\* and its ancestors that was missing.
C38_GetFolderIDTerminates ==
    /\ [](\A k \in 1..(Len(call.stack) - 1) : Len(call.stack[k]) < Len(call.stack[k + 1]))
    /\ [](call.path # Empty =>
             /\ call.deepest - 1 <= Components(call.path)
             /\ Stored(folders) \ Stored(call.foldersBefore)
                   \subseteq UpTo(call.path) \ Stored(call.foldersBefore)
             /\ Cardinality(Stored(folders)) = Len(folders))
    /\ (call.stack # <<>>) ~> (call.stack = <<>>)

\* the deepest path resolved on an empty table: a call below the first for
\* each of its components, a row for each of them and for "/"
C38_Witness ==
    /\ call.stack = <<>>
    /\ call.ret \notin {Null, FolderError}
    /\ call.foldersBefore = <<>>
    /\ Components(call.path) = MaxDepth - 1
    /\ call.deepest = MaxDepth
    /\ Len(folders) = MaxDepth

-----------------------------------------------------------------------------
(* file_info.go: truncateString *)

\* the longest last path handed to truncateString
MaxStrLen == 5

\* the columns getTerminalWidth can report: none, and the widths around 21
TerminalWidths == {0} \cup 19..27

\* the column reserved for the label of the line
LabelWidth == 21

\* the result of a call: a string, or the run-time panic of a slice
\* expression whose bounds are out of range
Returned(s) == [panic |-> FALSE, str |-> s]
Panicked == [panic |-> TRUE, str |-> Empty]

\* truncateString(str, num): str[0:num-3] + "..." when len(str) > num
truncateString(str, num) ==
    IF Len(str) > num
    THEN IF num - 3 < 0 \/ num - 3 > Len(str)
         THEN Panicked
         ELSE Returned(SubSeq(str, 1, num - 3) \o <<".", ".", ".">>)
    ELSE Returned(str)

NoTruncate == [fn |-> "none", str |-> Empty, num |-> 0, result |-> Returned(Empty)]

\* Print: truncateString(stats.lastProcessedFile.Load().(string),
\* getTerminalWidth()-21)
CallTruncateString ==
    /\ \E str \in StringsUpTo({"a", "b"}, MaxStrLen), width \in TerminalWidths :
          call' = [fn |-> "truncateString", str |-> str, num |-> width - LabelWidth,
                   result |-> truncateString(str, width - LabelWidth)]
    /\ UNCHANGED <<fs, cfg, files, folders, stats, phase, todo, walkNo, obs, visitedSymlinks>>

InitTruncate ==
    /\ call = NoTruncate
    /\ fs = [p \in {} |-> Null]
    /\ cfg = [patterns |-> <<>>, retryErrors |-> FALSE]
    /\ files = NoRows
    /\ folders = <<>>
    /\ stats = NewProcessStats
    /\ phase = "idle"
    /\ todo = <<>>
    /\ walkNo = 0
    /\ obs = Null
    /\ visitedSymlinks = {}

NextTruncate == CallTruncateString

SpecTruncate == InitTruncate /\ [][NextTruncate]_vars

TruncateCall == call.fn = "truncateString"

\* the call did not fail, its result is at most num long, and a string that
\* fits is returned as it is
TruncatedToFit ==
    /\ ~call.result.panic
    /\ Len(call.result.str) <= call.num
    /\ Len(call.str) <= call.num => call.result.str = call.str

\* C39: truncateString(str, num) never fails and returns a string of at most
\* num characters, for every string and every num the reporter can pass - the
\* terminal width less 21, widths below 24 included, where num is below 3 or
\* negative - and returns str itself when len(str) <= num.
C39_TruncateNeverFails == TruncateCall => TruncatedToFit

\* on a terminal of 24 columns or more the call does as claimed
C39_WideTerminal == TruncateCall /\ call.num >= 3 => TruncatedToFit

=============================================================================
